---- MODULE Spec2Model ----
(***************************************************************************)
(* A model of the databus GTFS validation engine: GTFSProcessor holding a  *)
(* feed, GTFSValidator with its eight built-in rules and custom rules, and *)
(* the ValidationReport that validate() builds.                            *)
(*                                                                         *)
(* Representation choices                                                  *)
(*   - Python None is the string "None" where the other values are strings *)
(*     (paths, processor references, feed handles) and the record NoTable  *)
(*     where the other values are tables.                                  *)
(*   - A pandas DataFrame is [columns, rows]; a row maps each column to a  *)
(*     cell.  Cells of id and name columns are strings.  Cells of numeric  *)
(*     and date columns are [num |-> n] (parsed to a number) or            *)
(*     [text |-> s] (a string that does not parse; the column then has     *)
(*     object dtype).                                                      *)
(*   - An f-string message is the sequence of its string fragments.        *)
(*   - The float score is the exact fraction [num, den].                   *)
(***************************************************************************)
EXTENDS Integers, Sequences, FiniteSets, TLC

VARIABLES
    procs,             \* GTFSProcessor objects: feed, feed_path, is_loaded
    processor,         \* GTFSValidator.processor: a processor or "None"
    validation_rules,  \* GTFSValidator._validation_rules
    result,            \* what the latest validate() call returned or raised
    last,              \* the latest operation and how it ended
    validators,        \* further GTFSValidator objects and their rule lists
    check_feed,        \* the feed object a check is handed directly
    answer,            \* what the latest query or check returned
    time_str,          \* the string parse_gtfs_time is given
    parsed,            \* what parse_gtfs_time returned for it
    cli,               \* a run of the gtfs validate command
    config             \* Config objects, their dictionaries and the files

vars == <<procs, processor, validation_rules, result, last,
          validators, check_feed, answer, time_str, parsed, cli, config>>

\* the state of the utilities and of the command line, which the operations
\* of the processors, validators and reports leave alone
utilities == <<time_str, parsed, cli, config>>

-----------------------------------------------------------------------------
(* Bounds of the model *)

MaxCustomRules == 2

-----------------------------------------------------------------------------
(* Generic helpers *)

None == "None"

Range(s) == {s[i] : i \in 1..Len(s)}

SelectIdx(s, Test(_)) ==
    LET F[i \in 0..Len(s)] ==
            IF i = 0 THEN <<>>
            ELSE IF Test(s[i]) THEN Append(F[i-1], i) ELSE F[i-1]
    IN F[Len(s)]

\* the value of a local variable assigned once: The({e}) is e, and
\* {F(x) : x \in {e}} computes e once however often F looks at x
The(S) == CHOOSE x \in S : TRUE

Take(s, n) == SubSeq(s, 1, IF Len(s) < n THEN Len(s) ELSE n)

\* list(a_set): the elements of a finite set in some order
RECURSIVE SetToList(_)
SetToList(S) ==
    IF S = {} THEN <<>>
    ELSE LET x == CHOOSE y \in S : TRUE
         IN <<x>> \o SetToList(S \ {x})

-----------------------------------------------------------------------------
(* pandas tables as gtfs_kit hands them to the checks *)

NoTable == [none |-> TRUE]

Table(cols, rows) == [columns |-> cols, rows |-> rows]

IsNone(t) == t = NoTable

\* DataFrame.empty
Empty(t) == Len(t.rows) = 0 \/ t.columns = {}

\* the values of a column, in row order (the column must exist)
Column(t, c) == [i \in 1..Len(t.rows) |-> t.rows[i][c]]

Num(n) == [num |-> n]
Text(s) == [text |-> s]
IsNum(cell) == "num" \in DOMAIN cell

\* str.strip() == '' on the name cells the model uses
Blank(s) == s \in {"", " "}

RECURSIVE Flatten(_)
Flatten(ss) == IF ss = <<>> THEN <<>> ELSE Head(ss) \o Flatten(Tail(ss))

Map(s, F(_)) == [i \in 1..Len(s) |-> F(s[i])]

-----------------------------------------------------------------------------
(* What a call of a rule's validate_func does: it returns a list of issues,  *)
(* or it raises.  A check that raises while its issues are being consumed    *)
(* (a generator that fails, a list holding an element that is no dict) has   *)
(* handed out the issues before the failure: they are in .issues.  The       *)
(* exceptions are subclasses of Exception.                                   *)

Issue(message, details) == [message |-> message, details |-> details]

NoDetails == [k \in {} |-> ""]

Returned(issues) ==
    [raised |-> FALSE, exc |-> None, issues |-> issues, cause |-> <<>>]

\* raises an exception of class exc whose str() is cause
Raised(exc, cause) ==
    [raised |-> TRUE, exc |-> exc, issues |-> <<>>, cause |-> cause]

RaisedAfter(issues, exc, cause) ==
    [raised |-> TRUE, exc |-> exc, issues |-> issues, cause |-> cause]

-----------------------------------------------------------------------------
(* The checks built into GTFSValidator *)

required_files == <<"agency", "routes", "stops", "trips", "stop_times">>

\* a wrong validate_required_files:
\* a table without rows counts as present
validate_required_files_absent_only(feed) ==
    LET Missing(file_name) == IsNone(feed[file_name])
        MkIssue(file_name) ==
            Issue(<<"Required file ", file_name, ".txt is missing or empty">>,
                  [file |-> file_name])
    IN Returned(Map(SelectSeq(required_files, Missing), MkIssue))

validate_required_files(feed) ==
    LET Missing(file_name) ==
            IsNone(feed[file_name]) \/ Empty(feed[file_name])
        MkIssue(file_name) ==
            Issue(<<"Required file ", file_name, ".txt is missing or empty">>,
                  [file |-> file_name])
    IN Returned(Map(SelectSeq(required_files, Missing), MkIssue))

required_fields ==
    << <<"agency", <<"agency_name", "agency_url", "agency_timezone">> >>,
       <<"routes", <<"route_id", "route_type">> >>,
       <<"stops", <<"stop_id", "stop_name", "stop_lat", "stop_lon">> >>,
       <<"trips", <<"route_id", "service_id", "trip_id">> >>,
       <<"stop_times", <<"trip_id", "stop_id", "stop_sequence">> >> >>

\* a wrong validate_required_fields:
\* a table without rows is examined too
validate_required_fields_of_empty_too(feed) ==
    LET Pairs(entry) == Map(entry[2], LAMBDA field : <<entry[1], field>>)
        Examined(entry) == ~IsNone(feed[entry[1]])
        Absent(pair) == pair[2] \notin feed[pair[1]].columns
        MkIssue(pair) ==
            Issue(<<"Required field '", pair[2], "' missing in ", pair[1], ".txt">>,
                  [file |-> pair[1], field |-> pair[2]])
        candidates == Flatten(Map(SelectSeq(required_fields, Examined), Pairs))
    IN Returned(Map(SelectSeq(candidates, Absent), MkIssue))

validate_required_fields(feed) ==
    LET Pairs(entry) == Map(entry[2], LAMBDA field : <<entry[1], field>>)
        Examined(entry) ==
            ~IsNone(feed[entry[1]]) /\ ~Empty(feed[entry[1]])
        Absent(pair) == pair[2] \notin feed[pair[1]].columns
        MkIssue(pair) ==
            Issue(<<"Required field '", pair[2], "' missing in ", pair[1], ".txt">>,
                  [file |-> pair[1], field |-> pair[2]])
        candidates == Flatten(Map(SelectSeq(required_fields, Examined), Pairs))
    IN Returned(Map(SelectSeq(candidates, Absent), MkIssue))

\* pd.to_numeric(column, errors='raise') succeeds
Numeric(t, c) == \A i \in 1..Len(t.rows) : IsNum(t.rows[i][c])

validate_data_types(feed) ==
    LET stops == feed.stops
        routes == feed.routes
        coords ==
            IF /\ ~IsNone(stops)
               /\ {"stop_lat", "stop_lon"} \subseteq stops.columns
               /\ ~(Numeric(stops, "stop_lat") /\ Numeric(stops, "stop_lon"))
            THEN <<Issue(<<"Stop coordinates must be numeric">>,
                         [file |-> "stops", fields |-> <<"stop_lat", "stop_lon">>])>>
            ELSE <<>>
        rtype ==
            IF /\ ~IsNone(routes)
               /\ "route_type" \in routes.columns
               /\ ~Numeric(routes, "route_type")
            THEN <<Issue(<<"Route type must be numeric">>,
                         [file |-> "routes", field |-> "route_type"])>>
            ELSE <<>>
    IN Returned(coords \o rtype)

KeyError(key) == <<"'", key, "'">>

\* the IDs of `child`.`key` that `parent`.`key` lacks (both columns exist)
MissingIds(child, parent, key) ==
    Range(Column(child, key)) \ Range(Column(parent, key))

validate_foreign_keys(feed) ==
    LET CheckRoutes == ~IsNone(feed.routes) /\ ~IsNone(feed.trips)
        CheckStops == ~IsNone(feed.stops) /\ ~IsNone(feed.stop_times)
        missing_routes == MissingIds(feed.trips, feed.routes, "route_id")
        missing_stops == MissingIds(feed.stop_times, feed.stops, "stop_id")
        routeIssue ==
            IF CheckRoutes /\ missing_routes # {}
            THEN <<Issue(<<"Trips reference non-existent routes: ">>
                             \o Take(SetToList(missing_routes), 5),
                         [missing_route_ids |->
                              Take(SetToList(missing_routes), 10)])>>
            ELSE <<>>
        stopIssue ==
            IF CheckStops /\ missing_stops # {}
            THEN <<Issue(<<"Stop times reference non-existent stops: ">>
                             \o Take(SetToList(missing_stops), 5),
                         [missing_stop_ids |->
                              Take(SetToList(missing_stops), 10)])>>
            ELSE <<>>
    IN IF CheckRoutes /\ "route_id" \notin feed.routes.columns
         THEN Raised("KeyError", KeyError("route_id"))
       ELSE IF CheckRoutes /\ "route_id" \notin feed.trips.columns
         THEN Raised("KeyError", KeyError("route_id"))
       ELSE IF CheckStops /\ "stop_id" \notin feed.stops.columns
         THEN Raised("KeyError", KeyError("stop_id"))
       ELSE IF CheckStops /\ "stop_id" \notin feed.stop_times.columns
         THEN Raised("KeyError", KeyError("stop_id"))
       ELSE Returned(routeIssue \o stopIssue)

\* comparing an object-dtype column (text cells) with a number
TypeError == <<"'<' not supported between instances of 'str' and 'int'">>

\* the rows of t whose numeric cell in column c lies outside [lo, hi]
OutOfRange(t, c, lo, hi) ==
    {i \in 1..Len(t.rows) : t.rows[i][c].num < lo \/ t.rows[i][c].num > hi}

validate_coordinates(feed) ==
    LET stops == feed.stops
        invalid_lats == OutOfRange(stops, "stop_lat", -90, 90)
        invalid_lons == OutOfRange(stops, "stop_lon", -180, 180)
        latIssue ==
            IF invalid_lats # {}
            THEN <<Issue(<<"Invalid latitudes found: ",
                           ToString(Cardinality(invalid_lats)), " stops">>,
                         [count |-> Cardinality(invalid_lats)])>>
            ELSE <<>>
        lonIssue ==
            IF invalid_lons # {}
            THEN <<Issue(<<"Invalid longitudes found: ",
                           ToString(Cardinality(invalid_lons)), " stops">>,
                         [count |-> Cardinality(invalid_lons)])>>
            ELSE <<>>
    IN IF IsNone(stops) \/ ~({"stop_lat", "stop_lon"} \subseteq stops.columns)
         THEN Returned(<<>>)
       ELSE IF ~Numeric(stops, "stop_lat") \/ ~Numeric(stops, "stop_lon")
         THEN Raised("TypeError", TypeError)
       ELSE Returned(latIssue \o lonIssue)

\* pd.Timestamp.now(), as a day number
Now == 2000

PastServiceDays == 30

LongServiceDays == 730

validate_service_dates(feed) ==
    LET calendar == feed.calendar
        Failed(cause) ==
            Returned(<<Issue(<<"Error validating service dates: ">> \o cause,
                             NoDetails)>>)
        start(i) == calendar.rows[i]["start_date"].num
        end(i) == calendar.rows[i]["end_date"].num
        past_services ==
            {i \in 1..Len(calendar.rows) : end(i) < Now - PastServiceDays}
        long_services ==
            {i \in 1..Len(calendar.rows) : end(i) - start(i) > LongServiceDays}
        pastIssue ==
            IF past_services # {}
            THEN <<Issue(<<"Service periods ending more than 30 days ago: ",
                           ToString(Cardinality(past_services))>>,
                         [count |-> Cardinality(past_services)])>>
            ELSE <<>>
        longIssue ==
            IF long_services # {}
            THEN <<Issue(<<"Service periods longer than 2 years: ",
                           ToString(Cardinality(long_services))>>,
                         [count |-> Cardinality(long_services)])>>
            ELSE <<>>
    IN IF IsNone(calendar) \/ Empty(calendar)
         THEN Returned(<<>>)
       ELSE IF "start_date" \notin calendar.columns
         THEN Failed(KeyError("start_date"))
       ELSE IF ~Numeric(calendar, "start_date")
         THEN Failed(<<"time data doesn't match format">>)
       ELSE IF "end_date" \notin calendar.columns
         THEN Failed(KeyError("end_date"))
       ELSE IF ~Numeric(calendar, "end_date")
         THEN Failed(<<"time data doesn't match format">>)
       ELSE Returned(pastIssue \o longIssue)

validate_stop_times_sequence(feed) ==
    LET stop_times == feed.stop_times
        Key(i) == <<stop_times.rows[i]["trip_id"],
                    stop_times.rows[i]["stop_sequence"]>>
        rowsIdx == 1..Len(stop_times.rows)
        \* the (trip_id, stop_sequence) groups of size > 1
        duplicates ==
            {Key(i) : i \in {j \in rowsIdx :
                                \E k \in rowsIdx : k # j /\ Key(k) = Key(j)}}
    IN IF IsNone(stop_times)
         THEN Returned(<<>>)
       ELSE IF "trip_id" \notin stop_times.columns
         THEN Raised("KeyError", KeyError("trip_id"))
       ELSE IF "stop_sequence" \notin stop_times.columns
         THEN Raised("KeyError", KeyError("stop_sequence"))
       ELSE IF duplicates # {}
         THEN Returned(<<Issue(<<"Duplicate stop sequences found in ",
                                 ToString(Cardinality(duplicates)), " cases">>,
                               [count |-> Cardinality(duplicates)])>>)
       ELSE Returned(<<>>)

AttributeError == <<"'str' object has no attribute 'astype'">>

validate_route_names(feed) ==
    LET routes == feed.routes
        no_name ==
            SelectSeq(routes.rows,
                      LAMBDA row : /\ Blank(row["route_short_name"])
                                   /\ Blank(row["route_long_name"]))
    IN IF IsNone(routes)
         THEN Returned(<<>>)
       ELSE IF "route_short_name" \notin routes.columns
               \/ "route_long_name" \notin routes.columns
         \* routes.get(column, '') is the str '' and has no astype
         THEN Raised("AttributeError", AttributeError)
       ELSE IF no_name = <<>>
         THEN Returned(<<>>)
       ELSE IF "route_id" \notin routes.columns
         THEN Raised("KeyError", KeyError("route_id"))
       ELSE Returned(<<Issue(<<"Routes without names: ", ToString(Len(no_name))>>,
                             [count |-> Len(no_name),
                              route_ids |->
                                  Take(Map(no_name, LAMBDA row : row["route_id"]),
                                       5)])>>)

-----------------------------------------------------------------------------
(* The feeds on disk that the model loads *)

Feed(agency, routes, stops, trips, stop_times, calendar, shapes) ==
    [agency |-> agency, routes |-> routes, stops |-> stops, trips |-> trips,
     stop_times |-> stop_times, calendar |-> calendar, shapes |-> shapes]

\* processor.feed before a feed is loaded
NoFeed == None

AgencyTable(rows) ==
    Table({"agency_name", "agency_url", "agency_timezone"}, rows)

TripsTable ==
    Table({"route_id", "service_id", "trip_id"},
          << [route_id |-> "R1", service_id |-> "WK", trip_id |-> "T1"],
             [route_id |-> "R2", service_id |-> "WK", trip_id |-> "T2"] >>)

\* a feed no rule has anything to say about
CleanFeed ==
    Feed(AgencyTable(<< [agency_name |-> "Bus", agency_url |-> "http://bus",
                         agency_timezone |-> "America/Costa_Rica"] >>),
         Table({"route_id", "route_short_name", "route_long_name", "route_type"},
               << [route_id |-> "R1", route_short_name |-> "1",
                   route_long_name |-> "Centro", route_type |-> Num(3)],
                  [route_id |-> "R2", route_short_name |-> "2",
                   route_long_name |-> "", route_type |-> Num(3)] >>),
         Table({"stop_id", "stop_name", "stop_lat", "stop_lon"},
               << [stop_id |-> "S1", stop_name |-> "A",
                   stop_lat |-> Num(9), stop_lon |-> Num(-84)],
                  [stop_id |-> "S2", stop_name |-> "B",
                   stop_lat |-> Num(10), stop_lon |-> Num(-83)] >>),
         TripsTable,
         Table({"trip_id", "stop_id", "stop_sequence"},
               << [trip_id |-> "T1", stop_id |-> "S1", stop_sequence |-> Num(1)],
                  [trip_id |-> "T1", stop_id |-> "S2", stop_sequence |-> Num(2)],
                  [trip_id |-> "T2", stop_id |-> "S1", stop_sequence |-> Num(1)] >>),
         Table({"service_id", "start_date", "end_date"},
               << [service_id |-> "WK", start_date |-> Num(1900),
                   end_date |-> Num(2100)] >>),
         NoTable)

\* no agency.txt and no stops.txt, a trip of an unknown route, a service
\* period long over, a repeated stop_sequence and a route without names
PartialFeed ==
    Feed(NoTable,
         Table({"route_id", "route_short_name", "route_long_name", "route_type"},
               << [route_id |-> "R1", route_short_name |-> "1",
                   route_long_name |-> "Centro", route_type |-> Num(3)],
                  [route_id |-> "R3", route_short_name |-> " ",
                   route_long_name |-> "", route_type |-> Num(3)] >>),
         NoTable,
         TripsTable,
         Table({"trip_id", "stop_id", "stop_sequence"},
               << [trip_id |-> "T1", stop_id |-> "S1", stop_sequence |-> Num(1)],
                  [trip_id |-> "T1", stop_id |-> "S2", stop_sequence |-> Num(1)] >>),
         Table({"service_id", "start_date", "end_date"},
               << [service_id |-> "WK", start_date |-> Num(1000),
                   end_date |-> Num(1900)] >>),
         NoTable)

\* tables that lack the columns the checks index, and text where numbers
\* belong: several checks raise
BrokenFeed ==
    Feed(AgencyTable(<<>>),
         Table({"route_short_name", "route_type"},
               << [route_short_name |-> "1", route_type |-> Text("bus")] >>),
         Table({"stop_id", "stop_name", "stop_lat", "stop_lon"},
               << [stop_id |-> "S1", stop_name |-> "A",
                   stop_lat |-> Text("north"), stop_lon |-> Num(-84)] >>),
         TripsTable,
         Table({"trip_id", "stop_id"},
               << [trip_id |-> "T1", stop_id |-> "S1"] >>),
         Table({"service_id", "end_date"},
               << [service_id |-> "WK", end_date |-> Num(2100)] >>),
         NoTable)

\* CleanFeed with route R1 on two rows of routes.txt
DuplicatesFeed ==
    [CleanFeed EXCEPT
        !.routes = Table(@.columns, <<@.rows[1]>> \o @.rows)]

Paths == {"feed.zip", "partial.zip", "broken.zip", "corrupt.zip", "nowhere.zip"}

\* Path.exists()
Exists(path) == path # "nowhere.zip"

\* A feed object is named by the file it was read from; Tables(feed) are the
\* tables it holds.  getattr(None, name, None) is None for every table.
Tables(feed) ==
    CASE feed = "feed.zip" -> CleanFeed
      [] feed = "partial.zip" -> PartialFeed
      [] feed = "broken.zip" -> BrokenFeed
      [] feed = "duplicates.zip" -> DuplicatesFeed
      [] feed = NoFeed ->
             Feed(NoTable, NoTable, NoTable, NoTable, NoTable, NoTable, NoTable)

\* gk.read_gtfs(path): the feed object, or NoFeed when it raises
read_gtfs(path) ==
    IF path \in {"feed.zip", "partial.zip", "broken.zip", "duplicates.zip"}
    THEN path ELSE NoFeed

-----------------------------------------------------------------------------
(* ValidationRule and the rule set of a validator *)

Severities == {"error", "warning", "info"}

\* ValidationRule(name, description, validate_func, severity); validate_func
\* is [fn |-> m] for the validator's own method m, [outcome |-> o] for a
\* caller's function, which does o whatever the feed.
ValidationRule(name, description, validate_func, severity) ==
    [name |-> name, description |-> description,
     validate_func |-> validate_func, severity |-> severity]

BuiltIn(fn) == [fn |-> fn]

setup_default_rules ==
    << ValidationRule("required_files", <<"Check for required GTFS files">>,
                      BuiltIn("_validate_required_files"), "error"),
       ValidationRule("required_fields", <<"Check for required fields in each file">>,
                      BuiltIn("_validate_required_fields"), "error"),
       ValidationRule("data_types", <<"Check data type compliance">>,
                      BuiltIn("_validate_data_types"), "error"),
       ValidationRule("foreign_keys", <<"Check foreign key relationships">>,
                      BuiltIn("_validate_foreign_keys"), "error"),
       ValidationRule("coordinate_validity", <<"Check coordinate validity">>,
                      BuiltIn("_validate_coordinates"), "error"),
       ValidationRule("service_dates", <<"Check service date ranges">>,
                      BuiltIn("_validate_service_dates"), "warning"),
       ValidationRule("stop_times_sequence", <<"Check stop time sequences">>,
                      BuiltIn("_validate_stop_times_sequence"), "warning"),
       ValidationRule("route_names", <<"Check route naming consistency">>,
                      BuiltIn("_validate_route_names"), "info") >>

\* self._validate_xxx(feed), by method name
BuiltInCheck(fn, feed) ==
    CASE fn = "_validate_required_files" -> validate_required_files(feed)
      [] fn = "_validate_required_fields" -> validate_required_fields(feed)
      [] fn = "_validate_data_types" -> validate_data_types(feed)
      [] fn = "_validate_foreign_keys" -> validate_foreign_keys(feed)
      [] fn = "_validate_coordinates" -> validate_coordinates(feed)
      [] fn = "_validate_service_dates" -> validate_service_dates(feed)
      [] fn = "_validate_stop_times_sequence" -> validate_stop_times_sequence(feed)
      [] fn = "_validate_route_names" -> validate_route_names(feed)

BuiltInNames ==
    {"_validate_required_files", "_validate_required_fields",
     "_validate_data_types", "_validate_foreign_keys", "_validate_coordinates",
     "_validate_service_dates", "_validate_stop_times_sequence",
     "_validate_route_names"}

\* BuiltInCheck on the tables of each feed object, computed once
BuiltInOutcome ==
    [feed \in {"feed.zip", "partial.zip", "broken.zip", "duplicates.zip",
               NoFeed} |->
        [fn \in BuiltInNames |-> BuiltInCheck(fn, Tables(feed))]]

\* rule.validate_func(feed)
CallCheck(rule, feed) ==
    LET f == rule.validate_func
    IN IF "outcome" \in DOMAIN f THEN f.outcome ELSE BuiltInOutcome[feed][f.fn]

-----------------------------------------------------------------------------
(* GTFSValidator.validate: the loop over the rules *)

\* a wrong IssueDict:
\* the entry names the rule by its description
IssueDictByDescription(rule, issue) ==
    [rule |-> rule.description[1],
     message |-> IF "message" \in DOMAIN issue THEN issue.message
                 ELSE rule.description,
     details |-> IF "details" \in DOMAIN issue THEN issue.details
                 ELSE NoDetails,
     severity |-> rule.severity]

\* issue_dict of one issue of a rule
IssueDict(rule, issue) ==
    [rule |-> rule.name,
     message |-> IF "message" \in DOMAIN issue THEN issue.message
                 ELSE rule.description,
     details |-> IF "details" \in DOMAIN issue THEN issue.details
                 ELSE NoDetails,
     severity |-> rule.severity]

\* the entry the except branch appends for a rule that raised
FailureDict(rule, cause) ==
    [rule |-> rule.name,
     message |-> <<"Validation rule failed: ">> \o cause,
     details |-> NoDetails,
     severity |-> "error"]

\* a wrong EmptyLists:
\* the lists live on the validator and are not reset by a call
CarriedLists ==
    IF result.kind = "report"
    THEN [errors |-> result.report.errors, warnings |-> result.report.warnings,
          notices |-> result.report.notices, calls |-> <<>>,
          errors_by |-> result.errors_by, warnings_by |-> result.warnings_by,
          notices_by |-> result.notices_by, escaped |-> None]
    ELSE [errors |-> <<>>, warnings |-> <<>>, notices |-> <<>>,
          calls |-> <<>>, errors_by |-> <<>>, warnings_by |-> <<>>,
          notices_by |-> <<>>, escaped |-> None]

\* errors = [], warnings = [], notices = [] at the start of a call.  calls and
\* the *_by lists are bookkeeping of the model: the indices of the rules whose
\* check was invoked, and for each entry the index of the rule it came from.
\* escaped is the exception that left the loop, None while none has.
EmptyLists ==
    [errors |-> <<>>, warnings |-> <<>>, notices |-> <<>>,
     calls |-> <<>>, errors_by |-> <<>>, warnings_by |-> <<>>,
     notices_by |-> <<>>, escaped |-> None]

\* a wrong ListFor:
\* info issues are filed with the warnings
ListForInfoAsWarning(severity) ==
    IF severity = "error" THEN "errors" ELSE "warnings"

\* the if / elif / else on rule.severity that files an issue_dict
ListFor(severity) ==
    IF severity = "error" THEN "errors"
    ELSE IF severity = "warning" THEN "warnings"
    ELSE "notices"

File(acc, list, dict, idx) ==
    LET by == IF list = "errors" THEN "errors_by"
              ELSE IF list = "warnings" THEN "warnings_by"
              ELSE "notices_by"
    IN [acc EXCEPT ![list] = Append(@, dict), ![by] = Append(@, idx)]

RECURSIVE FileAll(_, _, _, _)
FileAll(acc, rule, issues, idx) ==
    IF issues = <<>> THEN acc
    ELSE FileAll(File(acc, ListFor(rule.severity),
                      IssueDict(rule, Head(issues)), idx),
                 rule, Tail(issues), idx)

\* a wrong Catches:
\* `except (ValueError, TypeError)`
CatchesValueAndTypeError(exc) == exc \in {"ValueError", "TypeError"}

\* `except Exception`: the classes the handler catches
Catches(exc) ==
    exc \in {"KeyError", "TypeError", "AttributeError", "ValueError",
             "RuntimeError"}

\* one iteration of `for rule in self._validation_rules`: the try body and
\* the except branch
RunRule(acc, rule, idx, feed) ==
    LET out == CallCheck(rule, feed)
        called == [acc EXCEPT !.calls = Append(@, idx)]
        filed == FileAll(called, rule, out.issues, idx)
    IN IF ~out.raised THEN filed
       ELSE IF Catches(out.exc)
         THEN File(filed, "errors", FailureDict(rule, out.cause), idx)
       ELSE [filed EXCEPT !.escaped = out.exc]

\* a wrong RunFrom:
\* the try encloses the loop, so the first rule that raises ends it
RECURSIVE RunFromUntilRaise(_, _, _, _)
RunFromUntilRaise(acc, rules, idx, feed) ==
    IF idx > Len(rules) THEN acc
    ELSE IF CallCheck(rules[idx], feed).raised
      THEN RunRule(acc, rules[idx], idx, feed)
    ELSE The({RunFromUntilRaise(after, rules, idx + 1, feed) :
                after \in {RunRule(acc, rules[idx], idx, feed)}})

\* the loop from rule idx on; an exception that no handler caught ends it
RECURSIVE RunFrom(_, _, _, _)
RunFrom(acc, rules, idx, feed) ==
    IF idx > Len(rules) THEN acc
    ELSE The({IF after.escaped # None THEN after
              ELSE RunFrom(after, rules, idx + 1, feed) :
                after \in {RunRule(acc, rules[idx], idx, feed)}})

RunRules(rules, feed) == RunFrom(EmptyLists, rules, 1, feed)

error_weight == 10

warning_weight == 3

notice_weight == 1

Max(a, b) == IF a >= b THEN a ELSE b

\* a wrong Score:
\* no max(0, ...)
ScoreUnclamped(errors, warnings, notices, rules) ==
    LET total_weight == Len(errors) * error_weight
                        + Len(warnings) * warning_weight
                        + Len(notices) * notice_weight
        max_possible_weight == Len(rules) * error_weight
    IN IF max_possible_weight > 0
       THEN [num |-> 100 * max_possible_weight - total_weight * 100,
             den |-> max_possible_weight]
       ELSE [num |-> 100, den |-> 1]

\* a wrong Score:
\* the weights are counted once per rule that reported, not per issue
ScorePerRule(errors, warnings, notices, rules) ==
    LET Names(list) == Cardinality({list[i].rule : i \in 1..Len(list)})
        total_weight == Names(errors) * error_weight
                        + Names(warnings) * warning_weight
                        + Names(notices) * notice_weight
        max_possible_weight == Len(rules) * error_weight
    IN IF max_possible_weight > 0
       THEN [num |-> Max(0, 100 * max_possible_weight - total_weight * 100),
             den |-> max_possible_weight]
       ELSE [num |-> 100, den |-> 1]

\* a wrong Score:
\* the notices carry no weight
ScoreWithoutNotices(errors, warnings, notices, rules) ==
    LET total_weight == Len(errors) * error_weight
                        + Len(warnings) * warning_weight
        max_possible_weight == Len(rules) * error_weight
    IN IF max_possible_weight > 0
       THEN [num |-> Max(0, 100 * max_possible_weight - total_weight * 100),
             den |-> max_possible_weight]
       ELSE [num |-> 100, den |-> 1]

\* max(0, 100 - (total_weight / max_possible_weight * 100)) as the fraction
\* num / den, and 100.0 without rules
Score(errors, warnings, notices, rules) ==
    LET total_weight == Len(errors) * error_weight
                        + Len(warnings) * warning_weight
                        + Len(notices) * notice_weight
        max_possible_weight == Len(rules) * error_weight
    IN IF max_possible_weight > 0
       THEN [num |-> Max(0, 100 * max_possible_weight - total_weight * 100),
             den |-> max_possible_weight]
       ELSE [num |-> 100, den |-> 1]

\* a wrong Status:
\* the warnings are looked at first
StatusWarningsFirst(errors, warnings) ==
    IF warnings # <<>> THEN "valid_with_warnings"
    ELSE IF errors # <<>> THEN "invalid"
    ELSE "valid"

\* if errors / elif warnings / else
Status(errors, warnings) ==
    IF errors # <<>> THEN "invalid"
    ELSE IF warnings # <<>> THEN "valid_with_warnings"
    ELSE "valid"

ValidationReport(status, score, errors, warnings, notices, feed_path) ==
    [status |-> status, score |-> score, errors |-> errors,
     warnings |-> warnings, notices |-> notices, feed_path |-> feed_path]

-----------------------------------------------------------------------------
(* GTFSProcessor *)

Procs == {"p1", "p2"}

\* GTFSProcessor(feed_path)
NewProcessor(feed_path) ==
    [feed_path |-> feed_path, feed |-> NoFeed, is_loaded |-> FALSE]

\* a wrong load_feed:
\* feed_path is assigned before the feed is read
load_feed_path_first(self, feed_path) ==
    LET path == IF feed_path # None THEN feed_path ELSE self.feed_path
    IN IF path = None \/ ~Exists(path)
       THEN [self |-> self, raised |-> "GTFSProcessingError"]
       ELSE IF read_gtfs(path) = NoFeed
       THEN [self |-> [self EXCEPT !.feed_path = path],
             raised |-> "GTFSProcessingError"]
       ELSE [self |-> [feed_path |-> path, feed |-> read_gtfs(path),
                       is_loaded |-> TRUE],
             raised |-> None]

\* load_feed(feed_path) on processor state self: the state after the call and
\* the exception it raised ("None": it returned)
load_feed(self, feed_path) ==
    LET path == IF feed_path # None THEN feed_path ELSE self.feed_path
    IN IF path = None \/ ~Exists(path) \/ read_gtfs(path) = NoFeed
       THEN [self |-> self, raised |-> "GTFSProcessingError"]
       ELSE [self |-> [feed_path |-> path, feed |-> read_gtfs(path),
                       is_loaded |-> TRUE],
             raised |-> None]

-----------------------------------------------------------------------------
(* GTFSValidator *)

\* a wrong Unusable:
\* only the presence of a processor is tested
UnusableWithoutLoadedTest(proc, ps) == proc = None

\* not self.processor or not self.processor._is_loaded
Unusable(proc, ps) == proc = None \/ ~ps[proc].is_loaded

\* a wrong validate:
\* the processor passed is stored only when it holds a loaded feed
validate_checking_first(held, given, rules, ps) ==
    LET proc == IF given # None THEN given ELSE held
    IN IF Unusable(proc, ps)
       THEN [processor |-> held,
             result |-> [kind |-> "GTFSValidationError", calls |-> <<>>]]
       ELSE The({
            IF run.escaped # None
            THEN [processor |-> proc,
                  result |-> [kind |-> run.escaped, calls |-> run.calls]]
            ELSE [processor |-> proc,
                  result |->
                      [kind |-> "report",
                       report |->
                           ValidationReport(
                               Status(run.errors, run.warnings),
                               Score(run.errors, run.warnings, run.notices,
                                     rules),
                               run.errors, run.warnings, run.notices,
                               ps[proc].feed_path),
                       calls |-> run.calls,
                       errors_by |-> run.errors_by,
                       warnings_by |-> run.warnings_by,
                       notices_by |-> run.notices_by,
                       feed |-> ps[proc].feed, rules |-> rules]] :
              run \in {RunRules(rules, ps[proc].feed)}})

\* validate(processor) on a validator holding processor `held` and the rule
\* set `rules`, the processors being in state ps: the processor the validator
\* holds afterwards, and what the call returned or raised.  .feed and .rules
\* record the feed and the rule set the run used.
validate(held, given, rules, ps) ==
    LET proc == IF given # None THEN given ELSE held
    IN IF Unusable(proc, ps)
       THEN [processor |-> proc,
             result |-> [kind |-> "GTFSValidationError", calls |-> <<>>]]
       ELSE The({
            IF run.escaped # None
            THEN [processor |-> proc,
                  result |-> [kind |-> run.escaped, calls |-> run.calls]]
            ELSE [processor |-> proc,
                  result |->
                      [kind |-> "report",
                       report |->
                           ValidationReport(
                               Status(run.errors, run.warnings),
                               Score(run.errors, run.warnings, run.notices,
                                     rules),
                               run.errors, run.warnings, run.notices,
                               ps[proc].feed_path),
                       calls |-> run.calls,
                       errors_by |-> run.errors_by,
                       warnings_by |-> run.warnings_by,
                       notices_by |-> run.notices_by,
                       feed |-> ps[proc].feed, rules |-> rules]] :
              run \in {RunRules(rules, ps[proc].feed)}})

\* add_custom_rule(rule)
add_custom_rule(rules, rule) == Append(rules, rule)

-----------------------------------------------------------------------------
(* The rules that callers add *)

CustomIssue(k) == Issue(<<"custom issue ", ToString(k)>>, [n |-> k])

Calls(outcome) == [outcome |-> outcome]

CustomRules ==
    { \* severity info, always one issue
      ValidationRule("custom_notice", <<"One notice">>,
                     Calls(Returned(<<CustomIssue(1)>>)), "info"),
      \* raises when called
      ValidationRule("custom_fails", <<"Raises">>,
                     Calls(Raised("RuntimeError", <<"boom">>)), "warning"),
      \* yields one issue, then raises
      ValidationRule("custom_partial", <<"One issue, then raises">>,
                     Calls(RaisedAfter(<<CustomIssue(1)>>, "RuntimeError", <<"boom">>)), "info"),
      \* the name of a built-in rule; its issue has no 'message' key
      ValidationRule("required_files", <<"Second required_files">>,
                     Calls(Returned(<<[details |-> [n |-> 2]]>>)), "warning") }

IsCustom(rule) == "outcome" \in DOMAIN rule.validate_func

CustomCount(rules) == Cardinality({i \in 1..Len(rules) : IsCustom(rules[i])})

-----------------------------------------------------------------------------
(* The state machine *)

NoResult == [kind |-> "none", calls |-> <<>>]

\* last: the operation, the exception it raised (None: it returned), and for
\* a validate() that returned a report whether the validate() before it ran
\* with the same feed and the same rule set
Done(op, raised) == [op |-> op, raised |-> raised, again |-> FALSE]

SameRun(before, after) ==
    /\ before.kind = "report"
    /\ after.kind = "report"
    /\ before.feed = after.feed
    /\ before.rules = after.rules

\* p1 = GTFSProcessor("feed.zip"), p2 = GTFSProcessor(), and
\* GTFSValidator(processor) for a processor or None
Init ==
    /\ procs = [p \in Procs |-> IF p = "p1" THEN NewProcessor("feed.zip")
                                ELSE NewProcessor(None)]
    /\ processor \in Procs \cup {None}
    /\ validation_rules = setup_default_rules
    /\ result = NoResult
    /\ last = Done("init", None)
    /\ validators = None
    /\ check_feed = None
    /\ answer = None
    /\ time_str = None /\ parsed = None /\ cli = None /\ config = None

LoadFeed(p, feed_path) ==
    \E r \in {load_feed(procs[p], feed_path)} :
       /\ procs' = [procs EXCEPT ![p] = r.self]
       /\ last' = Done("load_feed", r.raised)
       /\ UNCHANGED <<processor, validation_rules, result>>
       /\ UNCHANGED <<validators, check_feed, answer>>
       /\ UNCHANGED utilities

AddCustomRule(rule) ==
    /\ CustomCount(validation_rules) < MaxCustomRules
    /\ validation_rules' = add_custom_rule(validation_rules, rule)
    /\ last' = Done("add_custom_rule", None)
    /\ UNCHANGED <<procs, processor, result>>
    /\ UNCHANGED <<validators, check_feed, answer>>
    /\ UNCHANGED utilities

Validate(given) ==
    \E r \in {validate(processor, given, validation_rules, procs)} :
       /\ processor' = r.processor
       /\ result' = r.result
       /\ last' = [op |-> "validate",
                   raised |-> IF r.result.kind = "report" THEN None
                              ELSE r.result.kind,
                   again |-> SameRun(result, r.result)]
       /\ UNCHANGED <<procs, validation_rules>>
       /\ UNCHANGED <<validators, check_feed, answer>>
       /\ UNCHANGED utilities

Next ==
    \/ \E p \in Procs, feed_path \in Paths \cup {None} : LoadFeed(p, feed_path)
    \/ \E rule \in CustomRules : AddCustomRule(rule)
    \/ \E given \in Procs \cup {None} : Validate(given)

Spec == Init /\ [][Next]_vars

\* The same machine started from any rule set: the default one, none at all
\* (a subclass whose _setup_default_rules installs nothing), or one custom rule
InitRules ==
    /\ procs = [p \in Procs |-> IF p = "p1" THEN NewProcessor("feed.zip")
                                ELSE NewProcessor(None)]
    /\ processor \in Procs \cup {None}
    /\ validation_rules \in {setup_default_rules, <<>>}
                                \cup {<<rule>> : rule \in CustomRules}
    /\ result = NoResult
    /\ last = Done("init", None)
    /\ validators = None
    /\ check_feed = None
    /\ answer = None
    /\ time_str = None /\ parsed = None /\ cli = None /\ config = None

SpecRules == InitRules /\ [][Next]_vars

-----------------------------------------------------------------------------
(* Properties *)

IsReport == result.kind = "report"

\* validate() was the latest operation.  It stores the processor it is
\* passed and changes no processor, so the processor it validated is the one
\* the validator holds now, in the state it was in during the call.
JustValidated == last.op = "validate"

HoldsLoadedFeed == processor # None /\ procs[processor].is_loaded

\* what the check of the i-th rule of the reported run did
OutcomeOf(i) == CallCheck(result.rules[i], result.feed)

\* the entries of a list that rule i produced
EntriesBy(list, by, i) ==
    LET idx == SelectIdx(by, LAMBDA src : src = i)
    IN [k \in 1..Len(idx) |-> list[idx[k]]]

\* 10*|errors| + 3*|warnings| + 1*|notices| of a report
Weight(report) ==
    10 * Len(report.errors) + 3 * Len(report.warnings) + Len(report.notices)

\* C1: with a processor whose feed is loaded (stored or passed), validate()
\* returns a report and raises nothing, whatever the rule set and whatever
\* the checks do, also when every check raises.
C1_ValidateReturnsReport ==
    (JustValidated /\ HoldsLoadedFeed) =>
        (result.kind = "report" /\ last.raised = None)

C1_EveryCheckRaised ==
    /\ JustValidated
    /\ IsReport
    /\ Len(result.rules) >= 2
    /\ \A i \in 1..Len(result.rules) : OutcomeOf(i).raised

\* C2: the status of a report is invalid iff errors is non-empty,
\* valid_with_warnings iff errors is empty and warnings is not, valid iff both
\* are empty; notices play no part.
C2_StatusFollowsLists ==
    IsReport =>
        LET r == result.report
        IN /\ r.status \in {"invalid", "valid_with_warnings", "valid"}
           /\ (r.status = "invalid") <=> (Len(r.errors) > 0)
           /\ (r.status = "valid_with_warnings") <=>
                  (Len(r.errors) = 0 /\ Len(r.warnings) > 0)
           /\ (r.status = "valid") <=>
                  (Len(r.errors) = 0 /\ Len(r.warnings) = 0)

C2_ValidWithNotices ==
    /\ IsReport
    /\ result.report.status = "valid"
    /\ result.report.notices # <<>>

\* C3: the score of a report lies in [0, 100], also when the weighted issue
\* total exceeds ten times the number of active rules.
C3_ScoreInRange ==
    IsReport =>
        LET score == result.report.score
        IN score.den > 0 /\ 0 <= score.num /\ score.num <= 100 * score.den

C3_WeightExceedsMaximum ==
    /\ IsReport
    /\ Weight(result.report) > 10 * Len(result.rules)

\* C4: the score is 100 without active rules, and otherwise
\* max(0, 100 - 100*W/(10*R)), W = 10*|errors| + 3*|warnings| + |notices|
\* counted per issue, R the number of active rules, custom rules and rules
\* without issues included.
C4_ScoreFormula ==
    IsReport =>
        LET score == result.report.score
            R == Len(result.rules)
            W == Weight(result.report)
            expected == IF 100 * 10 * R - 100 * W > 0
                        THEN 100 * 10 * R - 100 * W ELSE 0
        IN /\ JustValidated => result.rules = validation_rules
           /\ IF R = 0 THEN score.num = 100 * score.den
              ELSE score.num * (10 * R) = expected * score.den

C4_ScoredWithCustomAndSilentRules ==
    /\ IsReport
    /\ CustomCount(result.rules) > 0
    /\ \E i \in 1..Len(result.rules) : OutcomeOf(i) = Returned(<<>>)
    /\ \E i \in 1..Len(result.rules) : Len(OutcomeOf(i).issues) > 1
    /\ 0 < result.report.score.num
    /\ result.report.score.num < 100 * result.report.score.den

\* C5: a rule whose check raises, when called or while its issues are
\* consumed, contributes exactly one entry, the synthetic error entry, and
\* none of its own issues.
C5_RaisingRuleLeavesOnlyFailureEntry ==
    IsReport =>
        \A i \in 1..Len(result.rules) :
            OutcomeOf(i).raised =>
                /\ EntriesBy(result.report.errors, result.errors_by, i)
                     = << [rule |-> result.rules[i].name,
                           message |-> <<"Validation rule failed: ">>
                                           \o OutcomeOf(i).cause,
                           details |-> NoDetails,
                           severity |-> "error"] >>
                /\ EntriesBy(result.report.warnings, result.warnings_by, i) = <<>>
                /\ EntriesBy(result.report.notices, result.notices_by, i) = <<>>

NonDecreasing(s) == \A i, j \in 1..Len(s) : i <= j => s[i] <= s[j]

\* C6: a validate() call invokes the check of every active rule once, in
\* rule-set order, also after a rule that raised, and the entries of each
\* list are in the order of the rules they came from.
C6_EveryRuleOnceInOrder ==
    IsReport =>
        /\ result.calls = [i \in 1..Len(result.rules) |-> i]
        /\ JustValidated => result.rules = validation_rules
        /\ Len(result.errors_by) = Len(result.report.errors)
        /\ Len(result.warnings_by) = Len(result.report.warnings)
        /\ Len(result.notices_by) = Len(result.report.notices)
        /\ NonDecreasing(result.errors_by)
        /\ NonDecreasing(result.warnings_by)
        /\ NonDecreasing(result.notices_by)

C6_RulesRunAfterARaise ==
    /\ IsReport
    /\ \E i, j \in 1..Len(result.rules) :
          /\ i < j
          /\ OutcomeOf(i).raised
          /\ OutcomeOf(j).issues # <<>>
          /\ j \in Range(result.calls)

\* C7: every issue of a rule whose check does not raise is in the report
\* once, in the list of the rule's severity (errors, warnings, notices for
\* error, warning, info), with the rule's severity, and in no other list.
C7_IssuesFiledBySeverity ==
    IsReport =>
        \A i \in 1..Len(result.rules) :
            LET rule == result.rules[i]
                issues == OutcomeOf(i).issues
                inErrors == EntriesBy(result.report.errors, result.errors_by, i)
                inWarnings ==
                    EntriesBy(result.report.warnings, result.warnings_by, i)
                inNotices ==
                    EntriesBy(result.report.notices, result.notices_by, i)
                own == CASE rule.severity = "error" -> inErrors
                         [] rule.severity = "warning" -> inWarnings
                         [] rule.severity = "info" -> inNotices
            IN ~OutcomeOf(i).raised =>
                  /\ Len(inErrors) + Len(inWarnings) + Len(inNotices) = Len(issues)
                  /\ Len(own) = Len(issues)
                  /\ \A k \in 1..Len(issues) :
                        /\ own[k].severity = rule.severity
                        /\ own[k].rule = rule.name
                        /\ "message" \in DOMAIN issues[k] =>
                               own[k].message = issues[k].message
                        /\ "details" \in DOMAIN issues[k] =>
                               own[k].details = issues[k].details

C7_IssuesOfEverySeverity ==
    /\ IsReport
    /\ \A sev \in Severities :
          \E i \in 1..Len(result.rules) :
              /\ result.rules[i].severity = sev
              /\ ~OutcomeOf(i).raised
              /\ OutcomeOf(i).issues # <<>>

\* C8: validate() raises GTFSValidationError when the validator has no
\* processor (none stored, none passed) or the processor's feed is not
\* loaded, and no rule's check has been invoked by then.
C8_NoFeedRaisesBeforeAnyRule ==
    (JustValidated /\ ~HoldsLoadedFeed) =>
        /\ result.kind = "GTFSValidationError"
        /\ last.raised = "GTFSValidationError"
        /\ result.calls = <<>>

C8_RaisedForUnloadedProcessor ==
    /\ JustValidated
    /\ processor # None
    /\ ~procs[processor].is_loaded
    /\ result.kind = "GTFSValidationError"

RulesNamed(name) ==
    {i \in 1..Len(result.rules) : result.rules[i].name = name}

ReportEntries ==
    Range(result.report.errors) \cup Range(result.report.warnings)
        \cup Range(result.report.notices)

\* C10 as stated: the rule field of every entry is the name of exactly one
\* rule of the active rule set, after any add_custom_rule calls.
C10_RuleFieldNamesExactlyOneRule ==
    IsReport =>
        \A entry \in ReportEntries : Cardinality(RulesNamed(entry.rule)) = 1

\* C10 as amended: the rule field of every entry is the name of at least one
\* rule of the active rule set, the rule that produced it among them; it is
\* the name of exactly one rule unless add_custom_rule was given a rule whose
\* name the set already held.
C10_RuleFieldNamesProducingRule ==
    IsReport =>
        /\ \A k \in 1..Len(result.report.errors) :
              result.errors_by[k] \in RulesNamed(result.report.errors[k].rule)
        /\ \A k \in 1..Len(result.report.warnings) :
              result.warnings_by[k] \in RulesNamed(result.report.warnings[k].rule)
        /\ \A k \in 1..Len(result.report.notices) :
              result.notices_by[k] \in RulesNamed(result.report.notices[k].rule)
        /\ (\A i, j \in 1..Len(result.rules) :
               result.rules[i].name = result.rules[j].name => i = j)
           => \A entry \in ReportEntries :
                  Cardinality(RulesNamed(entry.rule)) = 1

C10_TwoRulesShareAName ==
    /\ IsReport
    /\ \E entry \in ReportEntries : Cardinality(RulesNamed(entry.rule)) = 2

-----------------------------------------------------------------------------
(* Several GTFSValidator objects.  A Python list is an object: lists[id] is  *)
(* the content of list object id, and rules_of[v] is the list object that    *)
(* v._validation_rules refers to (0: v is not constructed).  added[v] is     *)
(* bookkeeping of the model: the rules add_custom_rule was given for v.      *)

Validators == {"v1", "v2", "v3"}

MaxAdded == 2

NoValidators ==
    [lists |-> <<>>, rules_of |-> [v \in Validators |-> 0],
     added |-> [v \in Validators |-> <<>>]]

\* StandardRules.get_all_rules(): a new list of new rule objects at each
\* call; validate_func is the closure of the rule's factory
Standard(name) == [std |-> name]

get_all_rules ==
    << ValidationRule("required_files", <<"Check for required GTFS files">>,
                      Standard("required_files"), "error"),
       ValidationRule("required_fields", <<"Check for required fields in each file">>,
                      Standard("required_fields"), "error"),
       ValidationRule("data_types", <<"Check data type compliance">>,
                      Standard("data_types"), "error"),
       ValidationRule("foreign_keys", <<"Check foreign key relationships">>,
                      Standard("foreign_keys"), "error"),
       ValidationRule("coordinate_validity", <<"Check coordinate validity">>,
                      Standard("coordinate_validity"), "error"),
       ValidationRule("service_dates", <<"Check service date ranges">>,
                      Standard("service_dates"), "warning"),
       ValidationRule("stop_times_sequence", <<"Check stop time sequences">>,
                      Standard("stop_times_sequence"), "warning"),
       ValidationRule("route_names", <<"Check route naming consistency">>,
                      Standard("route_names"), "info"),
       ValidationRule("duplicate_ids", <<"Check for duplicate IDs">>,
                      Standard("duplicate_ids"), "error"),
       ValidationRule("speed_validation", <<"Validate travel speeds between stops">>,
                      Standard("speed_validation"), "info") >>

\* a wrong append_rule:
\* one list object is shared by every validator
append_rule_to_all(lists, id, rule) ==
    [i \in DOMAIN lists |-> add_custom_rule(lists[i], rule)]

\* self._validation_rules.append(rule) on the list object id
append_rule(lists, id, rule) ==
    [lists EXCEPT ![id] = add_custom_rule(@, rule)]

InitValidators ==
    /\ procs = [p \in Procs |-> NewProcessor(None)]
    /\ processor = None
    /\ validation_rules = setup_default_rules
    /\ result = NoResult
    /\ last = Done("init", None)
    /\ validators = NoValidators
    /\ check_feed = None
    /\ answer = None
    /\ time_str = None /\ parsed = None /\ cli = None /\ config = None

\* v = GTFSValidator(): _setup_default_rules binds a new list object
NewValidator(v) ==
    /\ validators.rules_of[v] = 0
    /\ validators' =
           [validators EXCEPT
               !.lists = Append(@, setup_default_rules),
               !.rules_of[v] = Len(validators.lists) + 1]
    /\ last' = Done("GTFSValidator", None)
    /\ UNCHANGED <<procs, processor, validation_rules, result, check_feed,
                   answer>>
    /\ UNCHANGED utilities

\* the number of add_custom_rule calls so far, over all validators
AddedCount ==
    Cardinality(UNION {{<<v, i>> : i \in 1..Len(validators.added[v])} :
                           v \in Validators})

\* v.add_custom_rule(rule)
AddCustomRuleTo(v, rule) ==
    /\ validators.rules_of[v] # 0
    /\ AddedCount < MaxAdded
    /\ validators' =
           [validators EXCEPT
               !.lists = append_rule(@, validators.rules_of[v], rule),
               !.added[v] = Append(@, rule)]
    /\ last' = Done("add_custom_rule", None)
    /\ UNCHANGED <<procs, processor, validation_rules, result, check_feed,
                   answer>>
    /\ UNCHANGED utilities

\* StandardRules.get_all_rules()
GetAllRules ==
    /\ answer' = get_all_rules
    /\ last' = Done("get_all_rules", None)
    /\ UNCHANGED <<procs, processor, validation_rules, result, validators,
                   check_feed>>
    /\ UNCHANGED utilities

NextValidators ==
    \/ \E v \in Validators : NewValidator(v)
    \/ \E v \in Validators, rule \in CustomRules : AddCustomRuleTo(v, rule)
    \/ GetAllRules

SpecValidators == InitValidators /\ [][NextValidators]_vars

\* v._validation_rules
RulesOf(v) == validators.lists[validators.rules_of[v]]

Constructed == {v \in Validators : validators.rules_of[v] # 0}

\* C11: the rule set of every validator is the default rule set followed by
\* the rules that add_custom_rule was given for that validator, in the order
\* given: a call appends at the end, changes no rule that was in the set and
\* reaches no other validator, whether constructed before or after the
\* call; and a list returned by StandardRules.get_all_rules() holds none of
\* the custom rules.
C11_AddCustomRuleOnlyExtendsItsValidator ==
    /\ \A v \in Constructed :
           RulesOf(v) = setup_default_rules \o validators.added[v]
    /\ last.op = "get_all_rules" =>
           \A i \in 1..Len(answer) : answer[i] \notin CustomRules

\* one validator was given two rules, two others none, and the registry
\* was read afterwards
C11_OneOfThreeValidatorsExtended ==
    /\ Constructed = Validators
    /\ \E v \in Validators :
           /\ Len(validators.added[v]) = 2
           /\ validators.rules_of[v] = 2
           /\ \A w \in Validators \ {v} : validators.added[w] = <<>>
    /\ last.op = "get_all_rules"

-----------------------------------------------------------------------------
(* The queries of ValidationReport.  A query returns a list object:          *)
(* .list is its content and .same_as names the list of the report that the   *)
(* returned object is ("None": it is a new object).  A caller may then       *)
(* modify the object it was handed.                                          *)

ReturnedList(list, same_as) == [list |-> list, same_as |-> same_as]

\* a wrong get_issues_by_rule:
\* only the errors are scanned
get_issues_by_rule_in_errors(report, rule_name) ==
    ReturnedList(SelectSeq(report.errors,
                           LAMBDA issue : issue.rule = rule_name), None)

\* report.get_issues_by_rule(rule_name)
get_issues_by_rule(report, rule_name) ==
    LET Matching(issue_list) ==
            SelectSeq(issue_list, LAMBDA issue : issue.rule = rule_name)
    IN ReturnedList(Matching(report.errors) \o Matching(report.warnings)
                        \o Matching(report.notices), None)

\* a wrong get_issues_by_severity:
\* the lists of the report are handed out, not copies of them
get_issues_by_severity_no_copy(report, severity) ==
    IF severity = "error" THEN ReturnedList(report.errors, "errors")
    ELSE IF severity = "warning" THEN ReturnedList(report.warnings, "warnings")
    ELSE IF severity = "info" THEN ReturnedList(report.notices, "notices")
    ELSE ReturnedList(<<>>, None)

\* report.get_issues_by_severity(severity)
get_issues_by_severity(report, severity) ==
    IF severity = "error" THEN ReturnedList(report.errors, None)
    ELSE IF severity = "warning" THEN ReturnedList(report.warnings, None)
    ELSE IF severity = "info" THEN ReturnedList(report.notices, None)
    ELSE ReturnedList(<<>>, None)

\* the rule names and the severity strings that callers ask for
AskedRuleNames ==
    {setup_default_rules[i].name : i \in 1..Len(setup_default_rules)}
        \cup {rule.name : rule \in CustomRules} \cup {"no_such_rule"}

AskedSeverities == {"error", "warning", "info", "bogus", "", "ERROR"}

\* the answer to a query: the query, its argument, the list object handed
\* out, and whether the caller has modified that object since
Answer(op, arg, returned) ==
    [op |-> op, arg |-> arg, list |-> returned.list,
     same_as |-> returned.same_as, modified |-> FALSE]

\* what a caller appends to a list it was handed
CallerEntry ==
    [rule |-> "caller", message |-> <<"added by the caller">>,
     details |-> NoDetails, severity |-> "info"]

\* p1 holds a loaded feed and the validator holds p1
InitReport ==
    /\ \E path \in {"feed.zip", "partial.zip", "broken.zip",
                      "duplicates.zip"} :
           procs = [p \in Procs |->
                       IF p = "p1"
                       THEN load_feed(NewProcessor(path), None).self
                       ELSE NewProcessor(None)]
    /\ processor = "p1"
    /\ validation_rules = setup_default_rules
    /\ result = NoResult
    /\ last = Done("init", None)
    /\ validators = None
    /\ check_feed = None
    /\ answer = None
    /\ time_str = None /\ parsed = None /\ cli = None /\ config = None

GetIssuesByRule(rule_name) ==
    /\ IsReport
    /\ answer' = Answer("get_issues_by_rule", rule_name,
                        get_issues_by_rule(result.report, rule_name))
    /\ last' = Done("get_issues_by_rule", None)
    /\ UNCHANGED <<procs, processor, validation_rules, result, validators,
                   check_feed>>
    /\ UNCHANGED utilities

GetIssuesBySeverity(severity) ==
    /\ IsReport
    /\ answer' = Answer("get_issues_by_severity", severity,
                        get_issues_by_severity(result.report, severity))
    /\ last' = Done("get_issues_by_severity", None)
    /\ UNCHANGED <<procs, processor, validation_rules, result, validators,
                   check_feed>>
    /\ UNCHANGED utilities

\* the caller appends to the list it was handed (change = "append") or
\* removes its first element (change = "remove"); the list of the report
\* changes with it when it is the same object
ModifyReturnedList(change) ==
    LET Changed(list) == IF change = "append" THEN Append(list, CallerEntry)
                         ELSE Tail(list)
    IN /\ last.op \in {"get_issues_by_rule", "get_issues_by_severity"}
       /\ change = "remove" => answer.list # <<>>
       /\ answer' = [answer EXCEPT !.list = Changed(@), !.modified = TRUE]
       /\ result' = IF answer.same_as = None THEN result
                     ELSE [result EXCEPT
                              !.report[answer.same_as] = Changed(@)]
       /\ last' = Done("modify", None)
       /\ UNCHANGED <<procs, processor, validation_rules, validators,
                      check_feed>>
       /\ UNCHANGED utilities

NextReport ==
    \/ \E rule \in CustomRules : AddCustomRule(rule)
    \/ Validate(None)
    \/ \E rule_name \in AskedRuleNames : GetIssuesByRule(rule_name)
    \/ \E severity \in AskedSeverities : GetIssuesBySeverity(severity)
    \/ \E change \in {"append", "remove"} : ModifyReturnedList(change)

SpecReport == InitReport /\ [][NextReport]_vars

\* the entries of a list of the report that rules named rule_name produced
EntriesOfRulesNamed(list, by, rule_name) ==
    LET idx == SelectIdx(by, LAMBDA i : result.rules[i].name = rule_name)
    IN [k \in 1..Len(idx) |-> list[idx[k]]]

\* C12: a rule whose name the set already holds is accepted and both rules
\* are run; get_issues_by_rule(name) returns the entries that the rules of
\* that name produced, those in errors first, then those in warnings, then
\* those in notices, and the empty list when no entry carries the name.
C12_IssuesByRuleCollectsEveryRuleOfThatName ==
    (last.op = "get_issues_by_rule") =>
        /\ \A i \in 1..Len(result.rules) :
               result.rules[i].name = answer.arg => i \in Range(result.calls)
        /\ answer.list =
               EntriesOfRulesNamed(result.report.errors, result.errors_by,
                                   answer.arg)
               \o EntriesOfRulesNamed(result.report.warnings,
                                      result.warnings_by, answer.arg)
               \o EntriesOfRulesNamed(result.report.notices,
                                      result.notices_by, answer.arg)
        /\ (\A entry \in ReportEntries : entry.rule # answer.arg)
               => answer.list = <<>>

\* two rules are named required_files, one filing errors and one filing
\* warnings, and the answer holds entries of both
C12_AnswerHoldsEntriesOfTwoRules ==
    /\ last.op = "get_issues_by_rule"
    /\ answer.arg = "required_files"
    /\ Cardinality(RulesNamed("required_files")) = 2
    /\ \E k \in 1..Len(answer.list) : answer.list[k].severity = "error"
    /\ \E k \in 1..Len(answer.list) : answer.list[k].severity = "warning"

\* the list of the report that get_issues_by_severity(severity) stands for
ListOfSeverity(severity) ==
    IF severity = "error" THEN result.report.errors
    ELSE IF severity = "warning" THEN result.report.warnings
    ELSE IF severity = "info" THEN result.report.notices
    ELSE <<>>

\* C20: get_issues_by_severity returns a list equal to errors for "error",
\* to warnings for "warning", to notices for "info" and the empty list for
\* any other string; and when the caller appends to the returned list or
\* removes an element from it, the report is left as it was.
C20_IssuesBySeverityReturnsACopy ==
    /\ [](last.op = "get_issues_by_severity"
            => answer.list = ListOfSeverity(answer.arg))
    /\ [][last'.op = "modify" => result' = result]_vars

\* the caller asked for the errors of a report that has some, removed one
\* from the list it was handed, and the report still has them all
C20_CallerModifiedReturnedErrors ==
    /\ last.op = "modify"
    /\ answer.op = "get_issues_by_severity"
    /\ answer.arg = "error"
    /\ result.report.errors # <<>>
    /\ Len(answer.list) < Len(result.report.errors)

\* C13 as stated: validating a feed whose routes table holds the same
\* route_id twice yields a report with one error entry of rule
\* duplicate_ids whose details.count is 1, and status invalid.
C13_DuplicateRouteIdReported ==
    (JustValidated /\ IsReport /\ result.feed = "duplicates.zip") =>
        /\ Cardinality({k \in 1..Len(result.report.errors) :
               /\ result.report.errors[k].rule = "duplicate_ids"
               /\ result.report.errors[k].details = [count |-> 1]}) = 1
        /\ result.report.status = "invalid"

\* the rule of severity info whose check always returns one issue
AlwaysOneNotice == The({rule \in CustomRules : rule.name = "custom_notice"})

\* the lists of the reported run had rule i returned no issue
WithoutIssuesOf(i) ==
    RunRules([result.rules EXCEPT ![i].validate_func = Calls(Returned(<<>>))],
             result.feed)

\* the issue of rule i is one entry of notices and no entry of errors or
\* warnings, and with it the status is what it is without it
FiledAsNoticeOnly(i, without) ==
    /\ Len(EntriesBy(result.report.notices, result.notices_by, i)) = 1
    /\ EntriesBy(result.report.errors, result.errors_by, i) = <<>>
    /\ EntriesBy(result.report.warnings, result.warnings_by, i) = <<>>
    /\ result.report.status = Status(without.errors, without.warnings)

\* C14 as stated: the issue of the custom info rule is in notices only, the
\* status is the same as without it, and the score is lower by 100/(10*N)
\* than without it, N being the number of active rules.
C14_NoticeLowersScoreByOneWeight ==
    IsReport =>
        \A i \in 1..Len(result.rules) :
            result.rules[i] = AlwaysOneNotice =>
                \A without \in {WithoutIssuesOf(i)} :
                    /\ FiledAsNoticeOnly(i, without)
                    /\ result.report.score.den = 10 * Len(result.rules)
                    /\ result.report.score.num =
                           Score(without.errors, without.warnings,
                                 without.notices, result.rules).num - 100

\* C14: the issue of the custom info rule is in notices only, the status is
\* the same as without it, and the score is lower by 100/(10*N) than without
\* it as long as the weight of all issues does not exceed 10*N; beyond that
\* the score is 0 with the issue and without it.
C14_NoticeLowersScoreUnlessClamped ==
    IsReport =>
        \A i \in 1..Len(result.rules) :
            result.rules[i] = AlwaysOneNotice =>
                \A without \in {WithoutIssuesOf(i)} :
                    /\ FiledAsNoticeOnly(i, without)
                    /\ result.report.score.den = 10 * Len(result.rules)
                    /\ result.report.score.num =
                           IF Weight(result.report) <= 10 * Len(result.rules)
                           THEN Score(without.errors, without.warnings,
                                      without.notices, result.rules).num - 100
                           ELSE 0

\* a report of a run with the custom info rule on a feed that has errors
\* too, the score staying above 0
C14_NoticeAmongOtherIssues ==
    /\ IsReport
    /\ \E i \in 1..Len(result.rules) : result.rules[i] = AlwaysOneNotice
    /\ result.report.errors # <<>>
    /\ result.report.score.num > 0

-----------------------------------------------------------------------------
(* ValidationRule objects in the hands of a caller: the caller constructs a  *)
(* rule, adds it to the validator and keeps the reference, so that it can    *)
(* assign to the attributes of a rule that is in the active rule set.        *)

\* the severity strings that callers pass
GivenSeverities == Severities \cup {"critical", ""}

\* ValidationRule.__post_init__: the exception it raises ("None": none)
post_init(rule) ==
    IF rule.severity \notin Severities THEN "ValueError" ELSE None

\* rule = ValidationRule("custom", "One issue", f, severity), f returning one
\* issue, followed by add_custom_rule(rule) when the constructor returned
ConstructAndAddRule(severity) ==
    \E rule \in {ValidationRule("custom", <<"One issue">>,
                                 Calls(Returned(<<CustomIssue(1)>>)),
                                 severity)} :
       /\ CustomCount(validation_rules) < MaxCustomRules
       /\ validation_rules' =
              IF post_init(rule) = None
              THEN add_custom_rule(validation_rules, rule)
              ELSE validation_rules
       /\ last' = Done("ValidationRule", post_init(rule))
       /\ UNCHANGED <<procs, processor, result, validators, check_feed,
                      answer>>
       /\ UNCHANGED utilities

\* rule.severity = severity on the rule object at index i of the rule set;
\* ValidationRule is a plain dataclass and the assignment runs no check
AssignSeverity(i, severity) ==
    /\ i \in 1..Len(validation_rules)
    /\ IsCustom(validation_rules[i])
    /\ validation_rules' = [validation_rules EXCEPT ![i].severity = severity]
    /\ last' = Done("assign_severity", None)
    /\ UNCHANGED <<procs, processor, result, validators, check_feed, answer>>
    /\ UNCHANGED utilities

NextRuleObjects ==
    \/ \E severity \in GivenSeverities : ConstructAndAddRule(severity)
    \/ \E i \in 1..Len(validation_rules), severity \in GivenSeverities :
           AssignSeverity(i, severity)
    \/ Validate(None)

SpecRuleObjects == InitReport /\ [][NextRuleObjects]_vars

\* C15 as stated: every rule of the active rule set has a severity among
\* error, warning, info at all times: a constructor given another severity
\* raises ValueError and adds nothing, and no later step takes the severity
\* of a rule out of the three.
C15_SeverityOfActiveRulesStaysValid ==
    /\ \A i \in 1..Len(validation_rules) :
           validation_rules[i].severity \in Severities
    /\ (last.op = "ValidationRule" /\ last.raised = None)
           => validation_rules[Len(validation_rules)].severity \in Severities

-----------------------------------------------------------------------------
(* Feed objects handed to a check directly.  A feed is named by how it      *)
(* differs from CleanFeed: the shape of each required table, the number of   *)
(* route and stop IDs that trips and stop_times refer to without routes and  *)
(* stops having them, and the stop_sequence values of trip T1.               *)

RequiredTables == Range(required_files)

\* no file; a header line only; the rows of CleanFeed; those rows without
\* the first, or the first two, mandatory columns of the table; a header
\* line only that lacks the first mandatory column
Shapes ==
    {"absent", "empty", "rows", "lacking_one", "lacking_two", "empty_lacking"}

MaxDangling == 11

DanglingCounts == {0, 1, 2, MaxDangling}

DanglingId(i) == "X" \o ToString(i)

SequencePatterns == {<<1, 2>>, <<1, 3>>, <<2, 3>>, <<1, 1>>, <<0, 1>>}

\* the mandatory columns of a required table, as required_fields lists them
MandatoryColumns(table_name) ==
    The({entry[2] : entry \in {e \in Range(required_fields) :
                                  e[1] = table_name}})

\* DataFrame[cols]: the table cut down to some of its columns
Restrict(table, cols) ==
    Table(cols, [i \in 1..Len(table.rows) |->
                    [c \in cols |-> table.rows[i][c]]])

Shaped(table, table_name, shape) ==
    CASE shape = "absent" -> NoTable
      [] shape = "empty" -> Table(table.columns, <<>>)
      [] shape = "rows" -> table
      [] shape = "lacking_one" ->
             Restrict(table, table.columns
                                \ {MandatoryColumns(table_name)[1]})
      [] shape = "lacking_two" ->
             Restrict(table, table.columns
                                \ {MandatoryColumns(table_name)[1],
                                    MandatoryColumns(table_name)[2]})
      [] shape = "empty_lacking" ->
             Table(table.columns \ {MandatoryColumns(table_name)[1]}, <<>>)

\* one trip per dangling route ID, and a second trip of the first of them
DanglingTrips(n) ==
    [i \in 1..n |-> [route_id |-> DanglingId(i), service_id |-> "WK",
                     trip_id |-> "T" \o ToString(i + 2)]]
    \o (IF n > 0 THEN << [route_id |-> DanglingId(1), service_id |-> "WK",
                          trip_id |-> "T0"] >>
        ELSE <<>>)

\* trip T2 goes on to each dangling stop ID, and to the first of them again
DanglingStopTimes(n) ==
    [i \in 1..n |-> [trip_id |-> "T2", stop_id |-> DanglingId(i),
                     stop_sequence |-> Num(i + 1)]]
    \o (IF n > 0 THEN << [trip_id |-> "T2", stop_id |-> DanglingId(1),
                          stop_sequence |-> Num(n + 2)] >>
        ELSE <<>>)

FeedNamed(shape, dangling_routes, dangling_stops, sequence) ==
    [shape |-> shape, dangling_routes |-> dangling_routes,
     dangling_stops |-> dangling_stops, sequence |-> sequence]

\* the tables of the feed that a name describes
FeedOf(name) ==
    LET trips == Table(CleanFeed.trips.columns,
                       CleanFeed.trips.rows
                           \o DanglingTrips(name.dangling_routes))
        stop_times ==
            Table(CleanFeed.stop_times.columns,
                  << [trip_id |-> "T1", stop_id |-> "S1",
                      stop_sequence |-> Num(name.sequence[1])],
                     [trip_id |-> "T1", stop_id |-> "S2",
                      stop_sequence |-> Num(name.sequence[2])],
                     [trip_id |-> "T2", stop_id |-> "S1",
                      stop_sequence |-> Num(1)] >>
                      \o DanglingStopTimes(name.dangling_stops))
    IN Feed(Shaped(CleanFeed.agency, "agency", name.shape["agency"]),
            Shaped(CleanFeed.routes, "routes", name.shape["routes"]),
            Shaped(CleanFeed.stops, "stops", name.shape["stops"]),
            Shaped(trips, "trips", name.shape["trips"]),
            Shaped(stop_times, "stop_times", name.shape["stop_times"]),
            CleanFeed.calendar, NoTable)

\* every shape but the last of every required table on the rows of
\* CleanFeed; the last shape for one table at a time; and the dangling
\* references and stop sequences on tables that are all there, routes apart
GivenFeeds ==
    {FeedNamed(shape, 0, 0, <<1, 2>>) :
        shape \in [RequiredTables -> Shapes \ {"empty_lacking"}]}
    \cup
    {FeedNamed([t \in RequiredTables |->
                   IF t = table_name THEN "empty_lacking" ELSE "rows"],
               0, 0, <<1, 2>>) : table_name \in RequiredTables}
    \cup
    {FeedNamed([t \in RequiredTables |->
                   IF t = "routes" THEN routes_shape ELSE "rows"],
               dangling_routes, dangling_stops, sequence) :
        routes_shape \in {"rows", "lacking_one", "absent"},
        dangling_routes \in DanglingCounts,
        dangling_stops \in DanglingCounts,
        sequence \in SequencePatterns}

\* what a check did when it was handed the feed directly
Checked(op, outcome) == [op |-> op, outcome |-> outcome]

\* p1 has loaded partial.zip and the validator holds p1; a caller holds one
\* of the feeds above
InitChecks ==
    /\ procs = [p \in Procs |->
                   IF p = "p1"
                   THEN load_feed(NewProcessor("partial.zip"), None).self
                   ELSE NewProcessor(None)]
    /\ processor = "p1"
    /\ validation_rules = setup_default_rules
    /\ result = NoResult
    /\ last = Done("init", None)
    /\ validators = None
    /\ check_feed \in GivenFeeds
    /\ answer = None
    /\ time_str = None /\ parsed = None /\ cli = None /\ config = None

\* validator._validate_xxx(feed), fn naming the method
CallBuiltIn(fn) ==
    /\ \E tables \in {FeedOf(check_feed)} :
           answer' = Checked(fn, BuiltInCheck(fn, tables))
    /\ last' = Done(fn, None)
    /\ UNCHANGED <<procs, processor, validation_rules, result, validators,
                   check_feed>>
    /\ UNCHANGED utilities

NextChecks ==
    \/ CallBuiltIn("_validate_required_files")
    \/ CallBuiltIn("_validate_required_fields")
    \/ CallBuiltIn("_validate_foreign_keys")
    \/ CallBuiltIn("_validate_stop_times_sequence")
    \/ Validate(None)

SpecChecks == InitChecks /\ [][NextChecks]_vars

\* the required tables of the feed in hand that are absent or have no rows
AbsentOrEmpty ==
    {t \in RequiredTables :
        check_feed.shape[t] \in {"absent", "empty", "empty_lacking"}}

\* the tables that the issues of the latest check name in details.file
FilesNamed ==
    {answer.outcome.issues[k].details.file :
        k \in 1..Len(answer.outcome.issues)}

\* C16: required_files returns one issue, naming the table, for each of
\* agency, routes, stops, trips, stop_times that is absent or has no rows,
\* and none for a table with rows; and the report of a feed without agency
\* and without stops holds two required_files errors, one for each, and
\* has status invalid.
C16_RequiredFilesOneIssuePerMissingTable ==
    /\ (last.op = "_validate_required_files") =>
           /\ ~answer.outcome.raised
           /\ FilesNamed = AbsentOrEmpty
           /\ Len(answer.outcome.issues) = Cardinality(AbsentOrEmpty)
    /\ (IsReport /\ result.feed = "partial.zip") =>
           /\ IsNone(Tables(result.feed).agency)
           /\ IsNone(Tables(result.feed).stops)
           /\ {e.details.file : e \in {x \in Range(result.report.errors) :
                                          x.rule = "required_files"}}
                  = {"agency", "stops"}
           /\ Cardinality({k \in 1..Len(result.report.errors) :
                  result.report.errors[k].rule = "required_files"}) = 2
           /\ result.report.status = "invalid"

\* the check was handed a feed without agency.txt, with a stops.txt that
\* has a header only and with rows in the three others, and returned two
\* issues; the report of partial.zip is there too
C16_TwoTablesMissing ==
    /\ last.op = "_validate_required_files"
    /\ check_feed.shape["agency"] = "absent"
    /\ check_feed.shape["stops"] = "empty"
    /\ AbsentOrEmpty = {"agency", "stops"}
    /\ Len(answer.outcome.issues) = 2
    /\ IsReport
    /\ result.feed = "partial.zip"

\* the mandatory columns that a table of the feed in hand lacks
LackedColumns(t) ==
    IF check_feed.shape[t] = "lacking_one"
      THEN {MandatoryColumns(t)[1]}
    ELSE IF check_feed.shape[t] = "lacking_two"
      THEN {MandatoryColumns(t)[1], MandatoryColumns(t)[2]}
    ELSE {}

\* C17: required_fields returns one issue for each mandatory column that a
\* required table with rows lacks and nothing else, so that it names no
\* table that is absent or empty: no table has both a required_files issue
\* and a required_fields issue for the same feed.
C17_RequiredFieldsOnlyOfTablesWithRows ==
    (last.op = "_validate_required_fields") =>
        LET issues == answer.outcome.issues
            expected == {<<t, c>> \in RequiredTables \X
                             UNION {LackedColumns(u) : u \in RequiredTables} :
                            c \in LackedColumns(t)}
        IN /\ ~answer.outcome.raised
           /\ {<<issues[k].details.file, issues[k].details.field>> :
                  k \in 1..Len(issues)} = expected
           /\ Len(issues) = Cardinality(expected)
           /\ FilesNamed \cap AbsentOrEmpty = {}
           /\ \A tables \in {FeedOf(check_feed)} :
                  \A f \in Range(validate_required_files(tables).issues) :
                      f.details.file \notin FilesNamed

\* the check was handed a feed with a table that is absent, one that has a
\* header only, and tables with rows that lack one and two mandatory columns
C17_MissingTablesAndMissingColumns ==
    /\ last.op = "_validate_required_fields"
    /\ check_feed.shape["agency"] = "absent"
    /\ check_feed.shape["routes"] = "empty"
    /\ check_feed.shape["stops"] = "lacking_two"
    /\ check_feed.shape["trips"] = "lacking_one"
    /\ Len(answer.outcome.issues) = 3

MaxListedIds == 10

\* the IDs that column key of table child refers to and table parent does
\* not hold, both tables being there
DanglingIdsOf(tables, child, parent, key) ==
    IF IsNone(tables[child]) \/ IsNone(tables[parent])
         \/ key \notin tables[child].columns
    THEN {}
    ELSE Range(Column(tables[child], key))
             \ (IF key \in tables[parent].columns
                 THEN Range(Column(tables[parent], key)) ELSE {})

\* at most one of the issues lists IDs under detail; there is one iff some
\* ID dangles; it lists at most MaxListedIds IDs, each of them dangling
OneIssueListingDangling(issues, detail, dangling) ==
    LET listing == {k \in 1..Len(issues) : detail \in DOMAIN issues[k].details}
    IN /\ Cardinality(listing) <= 1
       /\ (listing # {}) <=> (dangling # {})
       /\ \A k \in listing :
              /\ Len(issues[k].details[detail]) <= MaxListedIds
              /\ Range(issues[k].details[detail]) \subseteq dangling

\* C18 as stated: foreign_keys returns at most one issue for trips.route_id
\* and at most one for stop_times.stop_id; it returns the issue iff at least
\* one referenced ID is absent from the referenced table; the ID list in
\* details has at most 10 elements, each a dangling ID.
C18_ForeignKeysOneIssuePerRelation ==
    (last.op = "_validate_foreign_keys") =>
        \A tables \in {FeedOf(check_feed)} :
            /\ OneIssueListingDangling(
                   answer.outcome.issues, "missing_route_ids",
                   DanglingIdsOf(tables, "trips", "routes", "route_id"))
            /\ OneIssueListingDangling(
                   answer.outcome.issues, "missing_stop_ids",
                   DanglingIdsOf(tables, "stop_times", "stops", "stop_id"))

TripsScanned == 100

\* Series.unique(): the values of a sequence in the order of their first
\* occurrence
RECURSIVE Unique(_)
Unique(s) ==
    IF s = <<>> THEN <<>>
    ELSE LET before == Unique(SubSeq(s, 1, Len(s) - 1))
         IN IF s[Len(s)] \in Range(before) THEN before
            ELSE Append(before, s[Len(s)])

\* the sorted stop_sequence values of a trip are 1..N
Sequential(stop_times, trip_id) ==
    LET rows == {i \in 1..Len(stop_times.rows) :
                    stop_times.rows[i]["trip_id"] = trip_id}
    IN /\ {stop_times.rows[i]["stop_sequence"].num : i \in rows}
              = 1..Cardinality(rows)

\* C19 as stated: stop_times_sequence, as the engine runs it, looks at the
\* first 100 distinct trip_ids of stop_times and returns one issue naming
\* the first of them whose sorted stop_sequence values are not 1..N, and no
\* such issue when there is none; besides it returns at most one issue
\* counting the repeated (trip_id, stop_sequence) pairs.
C19_FirstNonSequentialTripReported ==
    (/\ last.op = "_validate_stop_times_sequence"
     /\ check_feed.shape["stop_times"] = "rows") =>
        \A stop_times \in {FeedOf(check_feed).stop_times} :
            LET issues == answer.outcome.issues
                naming == {k \in 1..Len(issues) :
                              "trip_id" \in DOMAIN issues[k].details}
                counting == {k \in 1..Len(issues) :
                                "count" \in DOMAIN issues[k].details}
                scanned == Take(Unique(Column(stop_times, "trip_id")),
                                TripsScanned)
                broken == SelectIdx(scanned,
                              LAMBDA t : ~Sequential(stop_times, t))
            IN /\ Cardinality(counting) <= 1
               /\ Cardinality(naming) = IF broken = <<>> THEN 0 ELSE 1
               /\ \A k \in naming :
                      issues[k].details.trip_id = scanned[broken[1]]

-----------------------------------------------------------------------------
(* The values a ValidationReport hands out.  The three properties, summary() *)
(* and to_json() build new values; to_dict() builds a new dictionary whose   *)
(* errors, warnings and notices are the list objects of the report; and the  *)
(* lists of get_issues_by_rule and get_issues_by_severity are new lists of   *)
(* the entry objects of the report.  validated_at, a datetime taken at       *)
(* construction that no method assigns, is not part of the model's report.   *)

\* round(score, 1) in tenths; a score halfway between two tenths goes up
RoundTenths(score) == (20 * score.num + score.den) \div (2 * score.den)

\* report.total_issues
total_issues(report) ==
    Len(report.errors) + Len(report.warnings) + Len(report.notices)

\* report.has_errors
has_errors(report) == Len(report.errors) > 0

\* report.has_warnings
has_warnings(report) == Len(report.warnings) > 0

\* report.summary()
summary(report) ==
    [status |-> report.status, score |-> RoundTenths(report.score),
     total_issues |-> total_issues(report), errors |-> Len(report.errors),
     warnings |-> Len(report.warnings), notices |-> Len(report.notices),
     feed_path |-> report.feed_path]

\* report.to_dict()
to_dict(report) ==
    [status |-> report.status, score |-> report.score,
     errors |-> ReturnedList(report.errors, "errors"),
     warnings |-> ReturnedList(report.warnings, "warnings"),
     notices |-> ReturnedList(report.notices, "notices"),
     feed_path |-> report.feed_path, summary |-> summary(report)]

\* report.to_json(): the text of to_dict(), which holds the content of the
\* lists and nothing of their identity
to_json(report) ==
    [json |-> [to_dict(report) EXCEPT !.errors = @.list,
                                      !.warnings = @.list,
                                      !.notices = @.list]]

ReadOnlyQueries ==
    {"total_issues", "has_errors", "has_warnings", "summary", "to_json"}

ReportLists == {"errors", "warnings", "notices"}

\* the answer to a query that hands out a new value
ValueOf(op, report) ==
    [op |-> op, arg |-> "", list |-> <<>>, same_as |-> None,
     modified |-> FALSE,
     value |-> IF op = "total_issues"
               THEN [total_issues |-> total_issues(report)]
               ELSE IF op = "has_errors"
               THEN [has_errors |-> has_errors(report)]
               ELSE IF op = "has_warnings"
               THEN [has_warnings |-> has_warnings(report)]
               ELSE IF op = "summary" THEN [summary |-> summary(report)]
               ELSE to_json(report)]

Query(op) ==
    /\ IsReport
    /\ answer' = ValueOf(op, result.report)
    /\ last' = Done(op, None)
    /\ UNCHANGED <<procs, processor, validation_rules, result, validators,
                   check_feed>>
    /\ UNCHANGED utilities

\* report.to_dict()[field] for one of the three lists
ToDict(field) ==
    /\ IsReport
    /\ answer' = Answer("to_dict", field, to_dict(result.report)[field])
    /\ last' = Done("to_dict", None)
    /\ UNCHANGED <<procs, processor, validation_rules, result, validators,
                   check_feed>>
    /\ UNCHANGED utilities

\* the entry of the report that the first element of the list handed out
\* is: the list of the report and the position in it
FirstEntryOf(report, ans) ==
    LET First(field) ==
            CHOOSE k \in 1..Len(report[field]) :
                /\ report[field][k].rule = ans.arg
                /\ \A j \in 1..(k - 1) : report[field][j].rule # ans.arg
        Has(field) ==
            \E k \in 1..Len(report[field]) : report[field][k].rule = ans.arg
        SeverityList == IF ans.arg = "error" THEN "errors"
                        ELSE IF ans.arg = "warning" THEN "warnings"
                        ELSE "notices"
    IN IF ans.op = "to_dict" THEN [field |-> ans.arg, at |-> 1]
       ELSE IF ans.op = "get_issues_by_severity"
       THEN [field |-> SeverityList, at |-> 1]
       ELSE IF Has("errors") THEN [field |-> "errors", at |-> First("errors")]
       ELSE IF Has("warnings")
       THEN [field |-> "warnings", at |-> First("warnings")]
       ELSE [field |-> "notices", at |-> First("notices")]

\* the report is no longer as validate() constructed it: a list has another
\* length than the record of the rules that produced its entries, or holds
\* what a caller wrote.  The model follows a report up to the first change.
Touched(res) ==
    \E field \in ReportLists :
        LET list == res.report[field]
            by == IF field = "errors" THEN res.errors_by
                  ELSE IF field = "warnings" THEN res.warnings_by
                  ELSE res.notices_by
        IN \/ Len(list) # Len(by)
           \/ \E k \in 1..Len(list) :
                  \/ list[k].rule = "caller"
                  \/ list[k].message = <<"changed by the caller">>

\* what the caller does with a list it was handed: it appends an entry
\* (change = "append"), removes the first element (change = "remove"), or
\* assigns to the 'message' key of the first element (change = "entry").  A
\* list that is a list of the report changes the report with it; an entry is
\* an entry object of the report whichever list holds it.
UseReturnedList(change) ==
    LET Changed(list) ==
            IF change = "append" THEN Append(list, CallerEntry)
            ELSE IF change = "remove" THEN Tail(list)
            ELSE [list EXCEPT ![1].message = <<"changed by the caller">>]
    IN /\ last.op \in {"get_issues_by_rule", "get_issues_by_severity",
                       "to_dict"}
       /\ ~Touched(result)
       /\ change \in {"remove", "entry"} => answer.list # <<>>
       /\ answer' = [answer EXCEPT !.list = Changed(@), !.modified = TRUE]
       /\ result' =
            IF change = "entry"
            THEN \* the entry is shared with the report
                 LET e == FirstEntryOf(result.report, answer)
                 IN [result EXCEPT !.report[e.field][e.at].message =
                                        <<"changed by the caller">>]
            ELSE IF answer.same_as = None THEN result
            ELSE [result EXCEPT !.report[answer.same_as] = Changed(@)]
       /\ last' = Done("use", None)
       /\ UNCHANGED <<procs, processor, validation_rules, validators,
                      check_feed>>
       /\ UNCHANGED utilities

NextReportValues ==
    \/ Validate(None)
    \/ \E op \in ReadOnlyQueries : Query(op)
    \/ \E field \in ReportLists : ToDict(field)
    \/ \E rule_name \in AskedRuleNames : GetIssuesByRule(rule_name)
    \/ \E severity \in AskedSeverities : GetIssuesBySeverity(severity)
    \/ \E change \in {"append", "remove", "entry"} : UseReturnedList(change)

SpecReportValues == InitReport /\ [][NextReportValues]_vars

\* C21 as stated: once a report is constructed, no query of it and no
\* operation on a value a query returned changes its status, score, errors,
\* warnings, notices or feed_path.
C21_ReportStaysAsConstructed ==
    [][(IsReport /\ last'.op # "validate") => result'.report = result.report]_vars

-----------------------------------------------------------------------------
(* The utilities and the command line are checked on their own: the engine's *)
(* variables then hold nothing.                                              *)

engine == <<procs, processor, validation_rules, result, last, validators,
            check_feed, answer>>

EngineIdle ==
    /\ procs = None
    /\ processor = None
    /\ validation_rules = <<>>
    /\ result = NoResult
    /\ last = Done("init", None)
    /\ validators = None
    /\ check_feed = None
    /\ answer = None

-----------------------------------------------------------------------------
(* parse_gtfs_time.  A Python str is the sequence of its characters; the     *)
(* value None passed for time_str is NoString.  A timedelta is the number of *)
(* seconds it stands for.                                                    *)

NoString == <<"None">>

Digits == <<"0", "1", "2", "3", "4", "5", "6", "7", "8", "9">>

IsDigit(c) == \E d \in 1..Len(Digits) : Digits[d] = c

DigitValue(c) == (CHOOSE d \in 1..Len(Digits) : Digits[d] = c) - 1

\* int() of a string of decimal digits
RECURSIVE IntOf(_)
IntOf(s) ==
    IF s = <<>> THEN 0
    ELSE 10 * IntOf(SubSeq(s, 1, Len(s) - 1)) + DigitValue(s[Len(s)])

IsSpace(c) == c \in {" ", "\t", "\n"}

\* str.strip()
RECURSIVE Strip(_)
Strip(s) ==
    IF s = <<>> THEN s
    ELSE IF IsSpace(Head(s)) THEN Strip(Tail(s))
    ELSE IF IsSpace(s[Len(s)]) THEN Strip(SubSeq(s, 1, Len(s) - 1))
    ELSE s

AllDigits(s) == \A k \in 1..Len(s) : IsDigit(s[k])

\* re.match(r'^(\d{1,2}):(\d{2}):(\d{2})$', s).groups(), or NoMatch
NoMatch == <<>>

MatchTime(s) ==
    LET Groups(h) ==
            \* h: the number of characters of the hours
            IF /\ Len(s) = h + 6
               /\ s[h + 1] = ":" /\ s[h + 4] = ":"
               /\ AllDigits(SubSeq(s, 1, h))
               /\ AllDigits(SubSeq(s, h + 2, h + 3))
               /\ AllDigits(SubSeq(s, h + 5, h + 6))
            THEN <<SubSeq(s, 1, h), SubSeq(s, h + 2, h + 3),
                   SubSeq(s, h + 5, h + 6)>>
            ELSE NoMatch
    IN IF Groups(2) # NoMatch THEN Groups(2) ELSE Groups(1)

timedelta(hours, minutes, seconds) ==
    [seconds |-> 3600 * hours + 60 * minutes + seconds]

NoTimedelta == [none |-> TRUE]

\* parse_gtfs_time(time_str)
parse_gtfs_time(str) ==
    IF str = NoString \/ str = <<>> \/ Strip(str) = <<>> THEN NoTimedelta
    ELSE LET match == MatchTime(Strip(str))
         IN IF match = NoMatch THEN NoTimedelta
            ELSE LET hours == IntOf(match[1])
                     minutes == IntOf(match[2])
                     seconds == IntOf(match[3])
                 IN IF minutes >= 60 \/ seconds >= 60 THEN NoTimedelta
                    ELSE timedelta(hours, minutes, seconds)

\* the strings the model parses: hours, minutes and seconds of several
\* widths and values between two separators, with and without blanks or
\* another character around them; and None, '', '  ' and 'invalid'
GivenHours ==
    {<<>>, <<"8">>, <<"0", "8">>, <<"1", "2">>, <<"2", "3">>, <<"2", "5">>,
     <<"9", "9">>, <<"1", "2", "3">>, <<"x", "8">>}

GivenMinutes ==
    {<<"0", "0">>, <<"3", "0">>, <<"5", "9">>, <<"6", "0">>, <<"5">>,
     <<"9", "9">>}

GivenSeconds == {<<"0", "0">>, <<"5", "9">>, <<"6", "0">>, <<"0">>}

GivenTimes ==
    {before \o h \o <<sep>> \o m \o <<sep>> \o s \o after :
        before \in {<<>>, <<" ">>}, h \in GivenHours, sep \in {":", "-"},
        m \in GivenMinutes, s \in GivenSeconds,
        after \in {<<>>, <<" ">>, <<"x">>}}
      \cup {NoString, <<>>, <<" ", " ">>,
            <<"i", "n", "v", "a", "l", "i", "d">>}

NotCalled == [called |-> FALSE]

InitTimes ==
    /\ EngineIdle
    /\ time_str \in GivenTimes
    /\ parsed = NotCalled
    /\ cli = None
    /\ config = None

ParseGtfsTime ==
    /\ parsed = NotCalled
    /\ parsed' = parse_gtfs_time(time_str)
    /\ UNCHANGED <<time_str, cli, config>>
    /\ UNCHANGED engine

NextTimes == ParseGtfsTime

SpecTimes == InitTimes /\ [][NextTimes]_vars

\* two-digit hours, two-digit minutes 00-59 and two-digit seconds 00-59
\* separated by colons, and nothing else
TwoDigitFields(str) ==
    /\ Len(str) = 8
    /\ \A k \in {1, 2, 4, 5, 7, 8} : IsDigit(str[k])
    /\ str[3] = ":" /\ str[6] = ":"
    /\ str[4] \in {"0", "1", "2", "3", "4", "5"}
    /\ str[7] \in {"0", "1", "2", "3", "4", "5"}

\* C27 as stated: parse_gtfs_time returns None for every string that is not
\* exactly two-digit hours, two-digit minutes 00-59 and two-digit seconds
\* 00-59 separated by colons (a one-digit hour gives None), and a timedelta
\* for every string that is, hours above 23 included.
C27_OnlyTwoDigitFieldsParse ==
    parsed # NotCalled =>
        (parsed # NoTimedelta <=> (time_str # NoString /\ TwoDigitFields(time_str)))

-----------------------------------------------------------------------------
(* Properties of the processors and of the processor a validator holds *)

\* C24: load_feed is all-or-nothing.  A call that returns has set feed to
\* the feed read from a path, feed_path to that path and _is_loaded to True
\* on one processor; a call that fails raises GTFSProcessingError and leaves
\* feed, feed_path and _is_loaded of every processor as they were; and
\* _is_loaded is True only if feed is set.
C24_LoadFeedAllOrNothing ==
    /\ [](\A p \in Procs : procs[p].is_loaded => procs[p].feed # NoFeed)
    /\ [][last'.op = "load_feed" =>
            IF last'.raised = None
            THEN \E p \in Procs, path \in Paths :
                    /\ read_gtfs(path) # NoFeed
                    /\ path \in {procs[p].feed_path, procs'[p].feed_path}
                    /\ procs' = [procs EXCEPT ![p] =
                                    [feed_path |-> path,
                                     feed |-> read_gtfs(path),
                                     is_loaded |-> TRUE]]
            ELSE /\ last'.raised = "GTFSProcessingError"
                 /\ procs' = procs]_vars

\* a load_feed has just failed although every processor holds a feed: the
\* call was made on a loaded processor, which is still loaded
C24_FailedLoadOnLoadedProcessor ==
    /\ last.op = "load_feed"
    /\ last.raised = "GTFSProcessingError"
    /\ \A p \in Procs : procs[p].is_loaded /\ procs[p].feed # NoFeed

\* C28: validate(p) stores p before it tests for a loaded feed.  After a
\* validate call that raised GTFSValidationError the validator holds a
\* processor without a loaded feed (the p it was passed, whatever it held
\* before), so a following validate() without argument raises too; and a
\* report is always the report of the feed of the processor the validator
\* then holds.
C28_ValidateStoresProcessorFirst ==
    /\ []((JustValidated /\ last.raised = "GTFSValidationError")
            => Unusable(processor, procs))
    /\ []((JustValidated /\ IsReport)
            => /\ processor # None
               /\ result.feed = procs[processor].feed
               /\ result.report.feed_path = procs[processor].feed_path)
    /\ [][(/\ JustValidated /\ last.raised = "GTFSValidationError"
           /\ last'.op = "validate" /\ processor' = processor)
            => last'.raised = "GTFSValidationError"]_vars

\* validate(p2) has raised for p2, which has no feed, while p1 holds one:
\* the validator holds p2
C28_HoldsUnloadedProcessorAfterRaise ==
    /\ JustValidated
    /\ last.raised = "GTFSValidationError"
    /\ processor = "p2"
    /\ ~procs["p2"].is_loaded
    /\ procs["p1"].is_loaded

-----------------------------------------------------------------------------
(* The methods of GTFSProcessor that need a loaded feed.  The processors    *)
(* are the objects in DOMAIN procs: p1 and p2 from the constructor, and the  *)
(* objects that filter_by_bounding_box and filter_by_dates return.           *)

Filtered == {"f1"}

Getters ==
    {"get_agencies", "get_routes", "get_stops", "get_trips",
     "get_stop_times", "get_shapes", "get_feed_stats", "to_dict"}

Filters == {"filter_by_bounding_box", "filter_by_dates"}

Methods == Getters \cup Filters \cup {"get_route_stats", "export_to_zip"}

\* a wrong ensure_loaded:
\* nothing is tested
ensure_loaded_never_raises(self) == None

\* _ensure_loaded(): the exception it raises ("None": it returns)
ensure_loaded(self) ==
    IF ~self.is_loaded \/ self.feed = NoFeed THEN "GTFSProcessingError"
    ELSE None

\* a call of a method that returns no processor: the exception it raises
\* ("None": it returns).  done: the route asked for is in the feed
\* (get_route_stats), the file could be written (export_to_zip).
call(self, method, done) ==
    IF ensure_loaded(self) # None THEN ensure_loaded(self)
    ELSE IF method \in {"get_route_stats", "export_to_zip"} /\ ~done
    THEN "GTFSProcessingError"
    ELSE None

\* what gk.filter_by_bounding_box and gk.filter_by_dates make of a feed is
\* not code of this repository: the feed with nothing removed, a feed with
\* fewer rows (the model takes the one of partial.zip), or an exception
\* (NoFeed)
FilterResults(feed) == {feed, "partial.zip", NoFeed}

NotReturned == [returned |-> FALSE]

\* a wrong NewFilteredProcessor:
\* _is_loaded of the new processor is left as the constructor set it
NewFilteredProcessorNotLoaded(filtered_feed) ==
    [NewProcessor(None) EXCEPT !.feed = filtered_feed]

\* new_processor = GTFSProcessor(); new_processor.feed = filtered_feed;
\* new_processor._is_loaded = True
NewFilteredProcessor(filtered_feed) ==
    [NewProcessor(None) EXCEPT !.feed = filtered_feed, !.is_loaded = TRUE]

\* filter_by_bounding_box(...), gtfs_kit returning filtered_feed: the new
\* processor and the exception raised
filter_by_bounding_box(self, filtered_feed) ==
    IF ensure_loaded(self) # None \/ filtered_feed = NoFeed
    THEN [new |-> NotReturned, raised |-> "GTFSProcessingError"]
    ELSE [new |-> NewFilteredProcessor(filtered_feed), raised |-> None]

\* filter_by_dates(...), gtfs_kit returning filtered_feed
filter_by_dates(self, filtered_feed) ==
    IF ensure_loaded(self) # None \/ filtered_feed = NoFeed
    THEN [new |-> NotReturned, raised |-> "GTFSProcessingError"]
    ELSE [new |-> NewFilteredProcessor(filtered_feed), raised |-> None]

\* the processor the latest method was called on
Called(p) == [on |-> p]

InitProcessors ==
    /\ procs = [p \in Procs |-> IF p = "p1" THEN NewProcessor("feed.zip")
                                ELSE NewProcessor(None)]
    /\ processor = None
    /\ validation_rules = setup_default_rules
    /\ result = NoResult
    /\ last = Done("init", None)
    /\ validators = None
    /\ check_feed = None
    /\ answer = None
    /\ time_str = None /\ parsed = None /\ cli = None /\ config = None

Call(p, method, done) ==
    /\ p \in DOMAIN procs
    /\ done \/ method \in {"get_route_stats", "export_to_zip"}
    /\ last' = Done(method, call(procs[p], method, done))
    /\ answer' = Called(p)
    /\ UNCHANGED <<procs, processor, validation_rules, result, validators,
                   check_feed>>
    /\ UNCHANGED utilities

\* p.filter_by_bounding_box(...) or p.filter_by_dates(...); q is the object
\* returned, when one is
Filter(p, method, q) ==
    /\ p \in DOMAIN procs
    /\ q \notin DOMAIN procs
    /\ \E filtered_feed \in FilterResults(procs[p].feed) :
       \E r \in {IF method = "filter_by_bounding_box"
                 THEN filter_by_bounding_box(procs[p], filtered_feed)
                 ELSE filter_by_dates(procs[p], filtered_feed)} :
          /\ procs' = IF r.raised = None THEN procs @@ (q :> r.new)
                      ELSE procs
          /\ last' = Done(method, r.raised)
          /\ answer' = Called(p)
          /\ UNCHANGED <<processor, validation_rules, result, validators,
                         check_feed>>
          /\ UNCHANGED utilities

NextProcessors ==
    \/ \E p \in Procs \cup Filtered, feed_path \in Paths \cup {None} :
           p \in DOMAIN procs /\ LoadFeed(p, feed_path)
    \/ \E p \in Procs \cup Filtered, method \in Methods \ Filters,
          done \in BOOLEAN :
           Call(p, method, done)
    \/ \E p \in Procs \cup Filtered, method \in Filters, q \in Filtered :
           Filter(p, method, q)
    \/ \E given \in Procs \cup Filtered :
           given \in DOMAIN procs /\ Validate(given)

SpecProcessors == InitProcessors /\ [][NextProcessors]_vars

\* a load_feed call has succeeded on p: it has left a feed_path, which the
\* constructor of a filter result does not set and nothing resets
LoadFeedSucceededOn(p) == procs[p].is_loaded /\ procs[p].feed_path # None

\* C23 as stated: on a processor on which no load_feed call has succeeded,
\* each of the twelve methods raises GTFSProcessingError and leaves every
\* processor unchanged.
C23_MethodsRaiseWithoutSuccessfulLoad ==
    [][(last'.op \in Methods /\ ~LoadFeedSucceededOn(answer'.on))
        => (last'.raised = "GTFSProcessingError" /\ procs' = procs)]_vars

\* C23, amended: on a processor whose _is_loaded is False (one from the
\* constructor on which no load_feed call has succeeded; not one returned by
\* filter_by_bounding_box or filter_by_dates), each of the twelve methods
\* raises GTFSProcessingError and leaves every processor unchanged.
C23_MethodsRaiseOnUnloadedProcessor ==
    [][(last'.op \in Methods /\ ~procs[answer'.on].is_loaded)
        => (last'.raised = "GTFSProcessingError" /\ procs' = procs)]_vars

\* a method called on p2, which holds no feed while p1 holds one, has
\* raised
C23_MethodRaisedOnUnloadedProcessor ==
    /\ last.op \in Methods
    /\ answer.on = "p2"
    /\ ~procs["p2"].is_loaded
    /\ last.raised = "GTFSProcessingError"
    /\ procs["p1"].is_loaded

\* C25: filter_by_bounding_box and filter_by_dates on a loaded processor
\* return a new processor whose _is_loaded is True and whose feed is the
\* filtered feed, and leave the receiver (and every other processor) as it
\* was; validate(q) of a returned q never raises GTFSValidationError.
C25_FilterReturnsLoadedProcessor ==
    /\ [](\A q \in Filtered \cap DOMAIN procs :
              procs[q].is_loaded /\ procs[q].feed # NoFeed)
    /\ [][(last'.op \in Filters /\ last'.raised = None) =>
             \E q \in Filtered :
                /\ q \notin DOMAIN procs
                /\ DOMAIN procs' = DOMAIN procs \cup {q}
                /\ \A p \in DOMAIN procs : procs'[p] = procs[p]
                /\ procs'[q].is_loaded
                /\ procs'[q].feed \in
                       FilterResults(procs[answer'.on].feed) \ {NoFeed}]_vars
    /\ [][(last'.op = "validate" /\ processor' \in Filtered)
             => last'.raised # "GTFSValidationError"]_vars

\* a processor returned by a filter, on which load_feed never succeeded
\* (its feed_path is unset), has been validated and a report came back
C25_FilteredProcessorValidated ==
    /\ "f1" \in DOMAIN procs
    /\ procs["f1"].feed_path = None
    /\ JustValidated
    /\ processor = "f1"
    /\ IsReport

-----------------------------------------------------------------------------
(* The checks of StandardRules: the validate function that each factory     *)
(* defines, for the seven rule names that the engine has a check of its own  *)
(* for.                                                                      *)

rule_required_files == <<"agency", "routes", "stops", "trips", "stop_times">>

rule_required_fields ==
    << <<"agency", <<"agency_name", "agency_url", "agency_timezone">> >>,
       <<"routes", <<"route_id", "route_type">> >>,
       <<"stops", <<"stop_id", "stop_name", "stop_lat", "stop_lon">> >>,
       <<"trips", <<"route_id", "service_id", "trip_id">> >>,
       <<"stop_times", <<"trip_id", "stop_id", "stop_sequence">> >> >>

\* StandardRules.required_files_rule(): validate(feed)
required_files_rule(feed) ==
    LET Missing(file_name) ==
            IsNone(feed[file_name]) \/ Empty(feed[file_name])
        MkIssue(file_name) ==
            Issue(<<"Required file ", file_name, ".txt is missing or empty">>,
                  [file |-> file_name])
    IN Returned(Map(SelectSeq(rule_required_files, Missing), MkIssue))

\* StandardRules.required_fields_rule(): validate(feed)
required_fields_rule(feed) ==
    LET Pairs(entry) == Map(entry[2], LAMBDA field : <<entry[1], field>>)
        Examined(entry) ==
            ~IsNone(feed[entry[1]]) /\ ~Empty(feed[entry[1]])
        Absent(pair) == pair[2] \notin feed[pair[1]].columns
        MkIssue(pair) ==
            Issue(<<"Required field '", pair[2], "' missing in ", pair[1], ".txt">>,
                  [file |-> pair[1], field |-> pair[2]])
        candidates == Flatten(Map(SelectSeq(rule_required_fields, Examined), Pairs))
    IN Returned(Map(SelectSeq(candidates, Absent), MkIssue))

\* StandardRules.data_types_rule(): validate(feed)
data_types_rule(feed) ==
    LET stops == feed.stops
        routes == feed.routes
        coords ==
            IF /\ ~IsNone(stops)
               /\ {"stop_lat", "stop_lon"} \subseteq stops.columns
               /\ ~(Numeric(stops, "stop_lat") /\ Numeric(stops, "stop_lon"))
            THEN <<Issue(<<"Stop coordinates must be numeric">>,
                         [file |-> "stops", fields |-> <<"stop_lat", "stop_lon">>])>>
            ELSE <<>>
        rtype ==
            IF /\ ~IsNone(routes)
               /\ "route_type" \in routes.columns
               /\ ~Numeric(routes, "route_type")
            THEN <<Issue(<<"Route type must be numeric">>,
                         [file |-> "routes", field |-> "route_type"])>>
            ELSE <<>>
    IN Returned(coords \o rtype)

\* a wrong foreign_keys_rule:
\* the details list five IDs
foreign_keys_rule_listing_five(feed) ==
    LET CheckRoutes == ~IsNone(feed.routes) /\ ~IsNone(feed.trips)
        CheckStops == ~IsNone(feed.stops) /\ ~IsNone(feed.stop_times)
        missing_routes == MissingIds(feed.trips, feed.routes, "route_id")
        missing_stops == MissingIds(feed.stop_times, feed.stops, "stop_id")
        routeIssue ==
            IF CheckRoutes /\ missing_routes # {}
            THEN <<Issue(<<"Trips reference non-existent routes">>,
                         [missing_route_ids |->
                              Take(SetToList(missing_routes), 5)])>>
            ELSE <<>>
        stopIssue ==
            IF CheckStops /\ missing_stops # {}
            THEN <<Issue(<<"Stop times reference non-existent stops">>,
                         [missing_stop_ids |->
                              Take(SetToList(missing_stops), 5)])>>
            ELSE <<>>
    IN IF CheckRoutes /\ "route_id" \notin feed.routes.columns
         THEN Raised("KeyError", KeyError("route_id"))
       ELSE IF CheckRoutes /\ "route_id" \notin feed.trips.columns
         THEN Raised("KeyError", KeyError("route_id"))
       ELSE IF CheckStops /\ "stop_id" \notin feed.stops.columns
         THEN Raised("KeyError", KeyError("stop_id"))
       ELSE IF CheckStops /\ "stop_id" \notin feed.stop_times.columns
         THEN Raised("KeyError", KeyError("stop_id"))
       ELSE Returned(routeIssue \o stopIssue)

\* StandardRules.foreign_keys_rule(): validate(feed)
foreign_keys_rule(feed) ==
    LET CheckRoutes == ~IsNone(feed.routes) /\ ~IsNone(feed.trips)
        CheckStops == ~IsNone(feed.stops) /\ ~IsNone(feed.stop_times)
        missing_routes == MissingIds(feed.trips, feed.routes, "route_id")
        missing_stops == MissingIds(feed.stop_times, feed.stops, "stop_id")
        routeIssue ==
            IF CheckRoutes /\ missing_routes # {}
            THEN <<Issue(<<"Trips reference non-existent routes">>,
                         [missing_route_ids |->
                              Take(SetToList(missing_routes), 10)])>>
            ELSE <<>>
        stopIssue ==
            IF CheckStops /\ missing_stops # {}
            THEN <<Issue(<<"Stop times reference non-existent stops">>,
                         [missing_stop_ids |->
                              Take(SetToList(missing_stops), 10)])>>
            ELSE <<>>
    IN IF CheckRoutes /\ "route_id" \notin feed.routes.columns
         THEN Raised("KeyError", KeyError("route_id"))
       ELSE IF CheckRoutes /\ "route_id" \notin feed.trips.columns
         THEN Raised("KeyError", KeyError("route_id"))
       ELSE IF CheckStops /\ "stop_id" \notin feed.stops.columns
         THEN Raised("KeyError", KeyError("stop_id"))
       ELSE IF CheckStops /\ "stop_id" \notin feed.stop_times.columns
         THEN Raised("KeyError", KeyError("stop_id"))
       ELSE Returned(routeIssue \o stopIssue)

\* StandardRules.coordinate_validity_rule(): validate(feed)
coordinate_validity_rule(feed) ==
    LET stops == feed.stops
        invalid_lats == OutOfRange(stops, "stop_lat", -90, 90)
        invalid_lons == OutOfRange(stops, "stop_lon", -180, 180)
        latIssue ==
            IF invalid_lats # {}
            THEN <<Issue(<<"Invalid latitudes found: ",
                           ToString(Cardinality(invalid_lats)), " stops">>,
                         [count |-> Cardinality(invalid_lats)])>>
            ELSE <<>>
        lonIssue ==
            IF invalid_lons # {}
            THEN <<Issue(<<"Invalid longitudes found: ",
                           ToString(Cardinality(invalid_lons)), " stops">>,
                         [count |-> Cardinality(invalid_lons)])>>
            ELSE <<>>
    IN IF IsNone(stops) \/ ~({"stop_lat", "stop_lon"} \subseteq stops.columns)
         THEN Returned(<<>>)
       ELSE IF ~Numeric(stops, "stop_lat") \/ ~Numeric(stops, "stop_lon")
         THEN Raised("TypeError", TypeError)
       ELSE Returned(latIssue \o lonIssue)

\* StandardRules.service_dates_rule(): validate(feed)
service_dates_rule(feed) ==
    LET calendar == feed.calendar
        Failed(cause) ==
            Returned(<<Issue(<<"Error validating service dates: ">> \o cause,
                             NoDetails)>>)
        start(i) == calendar.rows[i]["start_date"].num
        end(i) == calendar.rows[i]["end_date"].num
        past_services ==
            {i \in 1..Len(calendar.rows) : end(i) < Now - PastServiceDays}
        long_services ==
            {i \in 1..Len(calendar.rows) : end(i) - start(i) > LongServiceDays}
        pastIssue ==
            IF past_services # {}
            THEN <<Issue(<<"Service periods ending more than 30 days ago: ",
                           ToString(Cardinality(past_services))>>,
                         [count |-> Cardinality(past_services)])>>
            ELSE <<>>
        longIssue ==
            IF long_services # {}
            THEN <<Issue(<<"Service periods longer than 2 years: ",
                           ToString(Cardinality(long_services))>>,
                         [count |-> Cardinality(long_services)])>>
            ELSE <<>>
    IN IF IsNone(calendar) \/ Empty(calendar)
         THEN Returned(<<>>)
       ELSE IF "start_date" \notin calendar.columns
         THEN Failed(KeyError("start_date"))
       ELSE IF ~Numeric(calendar, "start_date")
         THEN Failed(<<"time data doesn't match format">>)
       ELSE IF "end_date" \notin calendar.columns
         THEN Failed(KeyError("end_date"))
       ELSE IF ~Numeric(calendar, "end_date")
         THEN Failed(<<"time data doesn't match format">>)
       ELSE Returned(pastIssue \o longIssue)

\* StandardRules.route_names_rule(): validate(feed)
route_names_rule(feed) ==
    LET routes == feed.routes
        no_name ==
            SelectSeq(routes.rows,
                      LAMBDA row : /\ Blank(row["route_short_name"])
                                   /\ Blank(row["route_long_name"]))
    IN IF IsNone(routes)
         THEN Returned(<<>>)
       ELSE IF "route_short_name" \notin routes.columns
               \/ "route_long_name" \notin routes.columns
         \* routes.get(column, '') is the str '' and has no astype
         THEN Raised("AttributeError", AttributeError)
       ELSE IF no_name = <<>>
         THEN Returned(<<>>)
       ELSE IF "route_id" \notin routes.columns
         THEN Raised("KeyError", KeyError("route_id"))
       ELSE Returned(<<Issue(<<"Routes without names: ", ToString(Len(no_name))>>,
                             [count |-> Len(no_name),
                              route_ids |->
                                  Take(Map(no_name, LAMBDA row : row["route_id"]),
                                       5)])>>)

SharedRuleNames ==
    {"required_files", "required_fields", "data_types", "foreign_keys",
     "coordinate_validity", "service_dates", "route_names"}

\* the validate function of the StandardRules rule of that name
StandardCheck(rule_name, feed) ==
    CASE rule_name = "required_files" -> required_files_rule(feed)
      [] rule_name = "required_fields" -> required_fields_rule(feed)
      [] rule_name = "data_types" -> data_types_rule(feed)
      [] rule_name = "foreign_keys" -> foreign_keys_rule(feed)
      [] rule_name = "coordinate_validity" -> coordinate_validity_rule(feed)
      [] rule_name = "service_dates" -> service_dates_rule(feed)
      [] rule_name = "route_names" -> route_names_rule(feed)

\* the method of GTFSValidator that _setup_default_rules binds to the name
BuiltInOf(rule_name) ==
    LET i == CHOOSE i \in 1..Len(setup_default_rules) :
                 setup_default_rules[i].name = rule_name
    IN setup_default_rules[i].validate_func.fn

\* the feeds both checks are handed: the generated ones and the feeds of
\* the files
DiskFeed(path) == [disk |-> path]

ComparedFeeds ==
    GivenFeeds \cup {DiskFeed(path) : path \in {"feed.zip", "partial.zip",
                                                "broken.zip",
                                                "duplicates.zip"}}

TablesOf(feed) ==
    IF "disk" \in DOMAIN feed THEN Tables(feed.disk) ELSE FeedOf(feed)

InitStandardRules ==
    /\ procs = [p \in Procs |-> NewProcessor(None)]
    /\ processor = None
    /\ validation_rules = setup_default_rules
    /\ result = NoResult
    /\ last = Done("init", None)
    /\ validators = None
    /\ check_feed \in ComparedFeeds
    /\ answer = None
    /\ time_str = None /\ parsed = None /\ cli = None /\ config = None

\* a caller hands the same feed to the check of the engine and to the
\* check of StandardRules of one name
CompareChecks(rule_name) ==
    /\ \E tables \in {TablesOf(check_feed)} :
           answer' = [op |-> rule_name,
                      built_in |-> BuiltInCheck(BuiltInOf(rule_name), tables),
                      standard |-> StandardCheck(rule_name, tables)]
    /\ last' = Done("compare", None)
    /\ UNCHANGED <<procs, processor, validation_rules, result, validators,
                   check_feed>>
    /\ UNCHANGED utilities

NextStandardRules == \E rule_name \in SharedRuleNames : CompareChecks(rule_name)

SpecStandardRules == InitStandardRules /\ [][NextStandardRules]_vars

\* C30: for each of the seven rule names, the check of the engine and the
\* check of StandardRules raise on the same feeds, and when they return
\* they return the same number of issues with the same details in the same
\* order.
C30_BuiltInAndStandardChecksAgree ==
    last.op = "compare" =>
        /\ answer.built_in.raised = answer.standard.raised
        /\ Len(answer.built_in.issues) = Len(answer.standard.issues)
        /\ \A k \in 1..Len(answer.built_in.issues) :
               answer.built_in.issues[k].details
                   = answer.standard.issues[k].details

\* both foreign_keys checks were handed a feed with more dangling route
\* IDs than the details list: both list the same ten, under messages that
\* differ
C30_SameDetailsUnderDifferentMessages ==
    /\ last.op = "compare"
    /\ answer.op = "foreign_keys"
    /\ ~answer.built_in.raised
    /\ answer.built_in.issues # <<>>
    /\ "missing_route_ids" \in DOMAIN answer.built_in.issues[1].details
    /\ Len(answer.built_in.issues[1].details.missing_route_ids) = MaxListedIds
    /\ answer.built_in.issues[1].message # answer.standard.issues[1].message

-----------------------------------------------------------------------------
(* The command `databus gtfs validate FEED_PATH [-o OUTPUT] [--format F]`.   *)
(* cli is one run of it: its arguments, the statement it has reached (.at),  *)
(* the processor and the report it holds, and its exit code once it has      *)
(* exited.  An exception that the command does not catch ends the process    *)
(* with exit code 1, as sys.exit(1) does; click ends it with 2 when          *)
(* FEED_PATH does not exist.                                                 *)

CliPaths == Paths \cup {"duplicates.zip"}

OutputFormats == {"table", "json"}

Outputs == {None, "report.json", "nowhere/report.json"}

\* open(output, 'w') succeeds
Writable(output) == output # "nowhere/report.json"

NoReport == [status |-> None]

Invoked(feed_path, output, output_format) ==
    [feed_path |-> feed_path, output |-> output,
     output_format |-> output_format, at |-> "click",
     processor |-> NewProcessor(None), report |-> NoReport,
     exit_code |-> 0]

Exited(run, exit_code) == [run EXCEPT !.at = "exited", !.exit_code = exit_code]

\* a wrong report_exit_code:
\* a report of status invalid makes the command fail
report_exit_code_by_status(report, output, output_format) ==
    IF report.status = "invalid" THEN 1
    ELSE IF output_format = "json" /\ output # None /\ ~Writable(output)
    THEN 1
    ELSE 0

\* the exit code of the command once validate() has returned a report: the
\* report is printed, or written to the output file
report_exit_code(report, output, output_format) ==
    IF output_format = "json" /\ output # None /\ ~Writable(output)
    THEN 1  \* OSError, which the command does not catch
    ELSE 0

InitCli ==
    /\ EngineIdle
    /\ time_str = None /\ parsed = None /\ config = None
    /\ \E feed_path \in CliPaths, output \in Outputs,
          output_format \in OutputFormats :
           cli = Invoked(feed_path, output, output_format)

\* click.Path(exists=True)
CliCheckPath ==
    /\ cli.at = "click"
    /\ cli' = IF Exists(cli.feed_path) THEN [cli EXCEPT !.at = "load_feed"]
              ELSE Exited(cli, 2)
    /\ UNCHANGED <<time_str, parsed, config>>
    /\ UNCHANGED engine

\* processor = GTFSProcessor(feed_path); processor.load_feed()
CliLoadFeed ==
    /\ cli.at = "load_feed"
    /\ \E r \in {load_feed(NewProcessor(cli.feed_path), None)} :
           cli' = IF r.raised # None THEN Exited(cli, 1)
                  ELSE [cli EXCEPT !.at = "validate", !.processor = r.self]
    /\ UNCHANGED <<time_str, parsed, config>>
    /\ UNCHANGED engine

\* validator = GTFSValidator(processor); report = validator.validate()
CliValidate ==
    /\ cli.at = "validate"
    /\ \E r \in {validate("p1", None, setup_default_rules,
                          [p \in {"p1"} |-> cli.processor])} :
           cli' = IF r.result.kind # "report" THEN Exited(cli, 1)
                  ELSE [cli EXCEPT !.at = "output",
                                   !.report = r.result.report]
    /\ UNCHANGED <<time_str, parsed, config>>
    /\ UNCHANGED engine

\* the report is printed or written, and the command returns
CliOutput ==
    /\ cli.at = "output"
    /\ cli' = Exited(cli, report_exit_code(cli.report, cli.output,
                                           cli.output_format))
    /\ UNCHANGED <<time_str, parsed, config>>
    /\ UNCHANGED engine

NextCli ==
    \/ CliCheckPath
    \/ CliLoadFeed
    \/ CliValidate
    \/ CliOutput

SpecCli == InitCli /\ [][NextCli]_vars

\* C22 as stated: when validate() has returned a report, the command exits
\* with code 0 whatever the status of the report.
C22_ExitZeroWheneverReported ==
    (cli.at = "exited" /\ cli.report # NoReport) => cli.exit_code = 0

\* C22, amended: when validate() has returned a report, the command exits
\* with code 0 whatever the status of the report, unless it was to write the
\* report to an --output file that cannot be written; and it exits with a
\* non-zero code when the feed could not be loaded.
C22_ExitZeroUnlessOutputFails ==
    cli.at = "exited" =>
        IF cli.report = NoReport THEN cli.exit_code # 0
        ELSE cli.exit_code = 0
                <=> ~(/\ cli.output_format = "json"
                      /\ cli.output # None
                      /\ ~Writable(cli.output))

\* the command has exited with code 0 after a report of status invalid
C22_ExitZeroForInvalidFeed ==
    /\ cli.at = "exited"
    /\ cli.report.status = "invalid"
    /\ cli.report.errors # <<>>
    /\ cli.exit_code = 0

-----------------------------------------------------------------------------
(* Config.  A configuration value is a scalar (named by its Python           *)
(* literal), a tuple, a list, or a dictionary, which is a function from its  *)
(* keys to values.  Config.DEFAULT_CONFIG holds one dictionary object per    *)
(* section; DEFAULT_CONFIG.copy() is a new top-level dictionary that holds   *)
(* the same section objects.  config.shared[s] is the content of the         *)
(* section object s of DEFAULT_CONFIG, and a value Ref(s) in the top-level   *)
(* dictionary of an instance (config.top) is that object; every other        *)
(* dictionary in an instance belongs to that instance alone.  config.files   *)
(* are the JSON files, config.made the instances constructed, config.last    *)
(* the latest call, and config.sets the number of values stored so far.      *)

Scalar(literal) == [scalar |-> literal]

TupleOf(items) == [tuple |-> items]

ListOf(items) == [list |-> items]

Dict(content) == [dict |-> content]

Ref(section) == [ref |-> section]

IsDict(value) == "dict" \in DOMAIN value

IsRef(value) == "ref" \in DOMAIN value

NoKeys == [k \in {} |-> Scalar("None")]

DEFAULT_CONFIG ==
    [api |-> [base_url |-> Scalar("'https://api.databus.cr'"),
              timeout |-> Scalar("30"),
              max_retries |-> Scalar("3"),
              api_key |-> Scalar("None")],
     logging |-> [level |-> Scalar("'INFO'"),
                  format |-> Scalar("'%(asctime)s - %(name)s - %(levelname)s - %(message)s'")],
     processing |-> [max_memory_usage |-> Scalar("'1GB'"),
                     chunk_size |-> Scalar("10000"),
                     temp_dir |-> Scalar("None")],
     validation |-> [strict_mode |-> Scalar("False"),
                     custom_rules_dir |-> Scalar("None")]]

Sections == DOMAIN DEFAULT_CONFIG

\* a wrong DefaultCopy:
\* copy.deepcopy(DEFAULT_CONFIG): the sections are new dictionaries
DefaultDeepCopy == [s \in Sections |-> Dict(DEFAULT_CONFIG[s])]

\* self.DEFAULT_CONFIG.copy()
DefaultCopy == [s \in Sections |-> Ref(s)]

\* d[key] = value
Put(d, key, value) ==
    [k \in DOMAIN d \cup {key} |-> IF k = key THEN value ELSE d[k]]

\* the dictionary self._config of an instance, each section object
\* replaced by its content
Resolved(world, instance) ==
    LET top == world.top[instance]
    IN Dict([k \in DOMAIN top |->
                IF IsRef(top[k]) THEN Dict(world.shared[top[k].ref])
                ELSE top[k]])

\* KeyError or TypeError of value[k]
Missing == [missing |-> TRUE]

\* for k in keys: value = value[k]
RECURSIVE Walk(_, _)
Walk(value, keys) ==
    IF keys = <<>> THEN value
    ELSE IF ~IsDict(value) THEN Missing
    ELSE IF Head(keys) \notin DOMAIN value.dict THEN Missing
    ELSE Walk(value.dict[Head(keys)], Tail(keys))

\* config.get(key, default), keys being key.split('.')
get(world, instance, keys, default) ==
    LET value == Walk(Resolved(world, instance), keys)
    IN IF value = Missing THEN default ELSE value

\* _set_nested_value failed with TypeError: a value on the path is no
\* dictionary
Fails == [fails |-> TRUE]

\* _set_nested_value from dictionary d on: the content of d afterwards
RECURSIVE SetIn(_, _, _)
SetIn(d, path, value) ==
    IF Len(path) = 1 THEN Put(d, path[1], value)
    ELSE LET key == Head(path)
             child == IF key \in DOMAIN d THEN d[key] ELSE Dict(NoKeys)
         IN IF ~IsDict(child) THEN Fails
            ELSE The({IF sub = Fails THEN Fails
                      ELSE Put(d, key, Dict(sub)) :
                        sub \in {SetIn(child.dict, Tail(path), value)}})

\* self._set_nested_value(path, value): the world afterwards and the
\* exception raised
set_nested_value(world, instance, path, value) ==
    LET top == world.top[instance]
        key == Head(path)
        Ok(w) == [world |-> w, raised |-> None]
        TypeErrorRaised == [world |-> world, raised |-> "TypeError"]
    IN IF Len(path) = 1 \/ key \notin DOMAIN top \/ ~IsRef(top[key])
       THEN \* the value goes into dictionaries of this instance
            The({IF after = Fails THEN TypeErrorRaised
                 ELSE Ok([world EXCEPT !.top[instance] = after]) :
                   after \in {SetIn(top, path, value)}})
       ELSE \* the value goes into a section object of DEFAULT_CONFIG
            The({IF after = Fails THEN TypeErrorRaised
                 ELSE Ok([world EXCEPT !.shared[top[key].ref] = after]) :
                   after \in {SetIn(world.shared[top[key].ref], Tail(path),
                                    value)}})

\* merge_dict(base, update) on the contents of two dictionaries
RECURSIVE merge_dict(_, _)
merge_dict(base, update) ==
    [k \in DOMAIN base \cup DOMAIN update |->
        IF k \notin DOMAIN update THEN base[k]
        ELSE IF k \in DOMAIN base /\ IsDict(base[k]) /\ IsDict(update[k])
        THEN Dict(merge_dict(base[k].dict, update[k].dict))
        ELSE update[k]]

\* self._merge_config(new_config)
merge_config(world, instance, new_config) ==
    LET top == world.top[instance]
        IntoSection(k) ==
            k \in DOMAIN top /\ k \in DOMAIN new_config
               /\ IsRef(top[k]) /\ IsDict(new_config[k])
    IN [world EXCEPT
          !.shared = [s \in Sections |->
                        IF \E k \in DOMAIN top : IntoSection(k) /\ top[k].ref = s
                        THEN merge_dict(@[s], new_config[s].dict)
                        ELSE @[s]],
          !.top[instance] =
              [k \in DOMAIN top \cup DOMAIN new_config |->
                  IF k \in DOMAIN top /\ (k \notin DOMAIN new_config
                                            \/ IntoSection(k))
                  THEN top[k]
                  ELSE IF k \in DOMAIN top /\ IsDict(top[k])
                          /\ IsDict(new_config[k])
                  THEN Dict(merge_dict(top[k].dict, new_config[k].dict))
                  ELSE new_config[k]]]

\* json.dump followed by json.load: a tuple comes back as a list
RECURSIVE Json(_)
Json(value) ==
    IF IsDict(value)
    THEN Dict([k \in DOMAIN value.dict |-> Json(value.dict[k])])
    ELSE IF "tuple" \in DOMAIN value THEN ListOf(value.tuple)
    ELSE value

ConfigFiles == {"f.json"}

NoFile == [exists |-> FALSE]

\* the first of the candidate paths that exists: config_file, no file
\* being at one of the default locations
FileRead(world, config_file) ==
    IF config_file # None /\ world.files[config_file] # NoFile
    THEN config_file
    ELSE None

\* Config(config_file) with DATABUS_API_TIMEOUT set to env_timeout or unset
\* (None): the world afterwards and the exception raised
NewConfig(world, instance, config_file, env_timeout) ==
    LET copied == [world EXCEPT !.top[instance] = DefaultCopy,
                                !.made = @ \cup {instance}]
        file == FileRead(world, config_file)
        loaded == IF file = None THEN copied
                  ELSE merge_config(copied, instance, world.files[file].dict)
    IN IF env_timeout = None THEN [world |-> loaded, raised |-> None]
       ELSE The({IF r.raised = None THEN r
                 ELSE [world |-> world, raised |-> r.raised] :
                   r \in {set_nested_value(loaded, instance,
                                           <<"api", "timeout">>,
                                           Scalar(env_timeout))}})

\* config.set(key, value), path being key.split('.')
set(world, instance, path, value) ==
    set_nested_value(world, instance, path, value)

\* config.save_to_file(file_path)
save_to_file(world, instance, file_path) ==
    [world EXCEPT !.files[file_path] = Json(Resolved(world, instance))]

Instances == {"config", "c1", "c2"}

MaxSets == 2

\* the keys callers set and get
GivenKeys ==
    {<<"api">>, <<"api", "timeout">>, <<"api", "timeout", "unit">>,
     <<"logging", "level">>, <<"plugins", "depth">>}

AskedKeys == GivenKeys \cup {<<"api", "retry">>, <<"nothing">>}

\* the values callers set
GivenValues ==
    {Scalar("45"), TupleOf(<<"1", "2">>), Dict(NoKeys)}

ConfigCall(op, instance, key, value, file, raised) ==
    [op |-> op, instance |-> instance, key |-> key, value |-> value,
     file |-> file, raised |-> raised]

\* the module has been imported: the global instance config = Config() is
\* made, no file and no DATABUS_ variable being there
InitialWorld ==
    [shared |-> DEFAULT_CONFIG,
     top |-> [i \in Instances |-> IF i = "config" THEN DefaultCopy
                                  ELSE NoKeys],
     made |-> {"config"},
     files |-> [f \in ConfigFiles |-> NoFile],
     sets |-> 0,
     last |-> ConfigCall("import", "config", <<>>, Scalar("None"), None,
                         None)]

InitConfig ==
    /\ EngineIdle
    /\ time_str = None /\ parsed = None /\ cli = None
    /\ config = InitialWorld

Construct(instance, config_file, env_timeout) ==
    /\ instance \notin config.made
    /\ \E r \in {NewConfig(config, instance, config_file, env_timeout)} :
           config' = [r.world EXCEPT
                         !.last = ConfigCall("Config", instance, <<>>,
                                             IF env_timeout = None
                                             THEN Scalar("None")
                                             ELSE Scalar(env_timeout),
                                             FileRead(config, config_file),
                                             r.raised)]
    /\ UNCHANGED <<time_str, parsed, cli>>
    /\ UNCHANGED engine

Set(instance, key, value) ==
    /\ instance \in config.made
    /\ config.sets < MaxSets
    /\ \E r \in {set(config, instance, key, value)} :
           config' = [r.world EXCEPT
                         !.sets = @ + 1,
                         !.last = ConfigCall("set", instance, key, value,
                                             None, r.raised)]
    /\ UNCHANGED <<time_str, parsed, cli>>
    /\ UNCHANGED engine

SaveToFile(instance, file_path) ==
    /\ instance \in config.made
    /\ config' = [save_to_file(config, instance, file_path) EXCEPT
                     !.last = ConfigCall("save_to_file", instance, <<>>,
                                         Scalar("None"), file_path, None)]
    /\ UNCHANGED <<time_str, parsed, cli>>
    /\ UNCHANGED engine

\* a caller assigns to a key of a section of the dictionary that
\* instance.to_dict() returned: self._config.copy() holds the dictionaries
\* of self._config themselves, so this is an assignment in the instance
WriteIntoToDict(instance, section, key, value) ==
    /\ instance \in config.made
    /\ config.sets < MaxSets
    /\ section \in DOMAIN config.top[instance]
    /\ Walk(Resolved(config, instance), <<section>>) # Missing
    /\ IsDict(Walk(Resolved(config, instance), <<section>>))
    /\ \E r \in {set_nested_value(config, instance, <<section, key>>,
                                  value)} :
           config' = [r.world EXCEPT
                         !.sets = @ + 1,
                         !.last = ConfigCall("to_dict", instance,
                                             <<section, key>>, value, None,
                                             r.raised)]
    /\ UNCHANGED <<time_str, parsed, cli>>
    /\ UNCHANGED engine

NextConfig ==
    \/ \E instance \in Instances, config_file \in {None, "f.json"},
          env_timeout \in {None, "60"} :
           Construct(instance, config_file, env_timeout)
    \/ \E instance \in Instances, key \in GivenKeys, value \in GivenValues :
           Set(instance, key, value)
    \/ \E instance \in Instances, file_path \in ConfigFiles :
           SaveToFile(instance, file_path)
    \/ \E instance \in Instances, value \in GivenValues :
           WriteIntoToDict(instance, "api", "timeout", value)

SpecConfig == InitConfig /\ [][NextConfig]_vars


\* the default callers give to get
GivenDefault == Scalar("'default'")

\* C26: after set(key, v) has returned, get(key) returns v; a new
\* Config(f) made right after save_to_file(f), no DATABUS_ variable being
\* set, returns for every dotted key what the saved instance returned; and
\* get of a key that is absent returns the given default
C26_SetGetAndSavedFileRoundTrip ==
    [][/\ (config'.last.op = "set" /\ config'.last.raised = None)
            => get(config', config'.last.instance, config'.last.key,
                   GivenDefault) = config'.last.value
       /\ (/\ config.last.op = "save_to_file"
           /\ config'.last.op = "Config"
           /\ config'.last.file = config.last.file
           /\ config'.last.value = Scalar("None")
           /\ config'.last.raised = None)
            => \A key \in AskedKeys :
                   get(config', config'.last.instance, key, GivenDefault)
                     = get(config, config.last.instance, key, GivenDefault)
       /\ \A instance \in config'.made, key \in AskedKeys :
              Walk(Resolved(config', instance), key) = Missing
                => get(config', instance, key, GivenDefault) = GivenDefault
      ]_vars

\* the first and the last part of C26 alone hold: set then get, and the
\* default for an absent key
SetThenGetReturnsValue ==
    [][/\ (config'.last.op = "set" /\ config'.last.raised = None)
            => get(config', config'.last.instance, config'.last.key,
                   GivenDefault) = config'.last.value
       /\ \A instance \in config'.made, key \in AskedKeys :
              Walk(Resolved(config', instance), key) = Missing
                => get(config', instance, key, GivenDefault) = GivenDefault
      ]_vars


\* a step that stores value under api.timeout through an instance: a
\* set('api.timeout', value), a Config() made with DATABUS_API_TIMEOUT set,
\* or a Config(f) that merged a file with a value of api.timeout (a value
\* that is a dictionary is merged key by key and is not counted here)
StoresApiTimeout ==
    /\ config'.last.raised = None
    /\ \/ config'.last.op = "set" /\ config'.last.key = <<"api", "timeout">>
       \/ config'.last.op = "Config" /\ config'.last.value # Scalar("None")
       \/ /\ config'.last.op = "Config"
          /\ config'.last.file # None
          /\ Walk(config.files[config'.last.file], <<"api", "timeout">>)
               # Missing
          /\ ~IsDict(Walk(config.files[config'.last.file],
                          <<"api", "timeout">>))

\* the value of api.timeout that step stored
StoredApiTimeout ==
    IF config'.last.op = "set" THEN config'.last.value
    ELSE IF config'.last.value # Scalar("None") THEN config'.last.value
    ELSE Walk(config.files[config'.last.file], <<"api", "timeout">>)

\* self._config['api'] is the dictionary that the constructor copied from
\* DEFAULT_CONFIG
HoldsDefaultSection(world, instance) ==
    /\ instance \in world.made
    /\ "api" \in DOMAIN world.top[instance]
    /\ world.top[instance]["api"] = DefaultCopy["api"]

\* a write into a section that to_dict() returned is a write into the
\* instance
ToDictAliasesInstance ==
    (config'.last.op = "to_dict" /\ config'.last.raised = None)
       => get(config', config'.last.instance, config'.last.key, GivenDefault)
            = config'.last.value

\* a Config() that reads no file and no variable starts from the sections
\* of DEFAULT_CONFIG as they are by then
LaterInstanceStartsFromShared ==
    (/\ config'.last.op = "Config"
     /\ config'.last.file = None
     /\ config'.last.value = Scalar("None"))
       => get(config', config'.last.instance, <<"api", "timeout">>,
              GivenDefault) = config.shared["api"]["timeout"]

\* C29 as stated: a value stored under api.timeout through one instance is
\* what get('api.timeout') returns on every instance and what
\* DEFAULT_CONFIG holds from then on, and to_dict() returns sections that
\* alias the instance
C29_EveryInstanceSharesSections ==
    [][/\ StoresApiTimeout
            => /\ \A other \in config'.made :
                      get(config', other, <<"api", "timeout">>, GivenDefault)
                        = StoredApiTimeout
               /\ config'.shared["api"]["timeout"] = StoredApiTimeout
       /\ LaterInstanceStartsFromShared
       /\ ToDictAliasesInstance
      ]_vars

\* C29 for the instances that still hold the section dictionary of
\* DEFAULT_CONFIG: a value stored under api.timeout through one of them is
\* what get('api.timeout') returns on every one of them and what
\* DEFAULT_CONFIG holds from then on, and to_dict() returns sections that
\* alias the instance
C29_InstancesHoldingDefaultSectionShareIt ==
    [][/\ (StoresApiTimeout
             /\ (config'.last.op = "set"
                   => HoldsDefaultSection(config, config'.last.instance)))
            => /\ \A other \in config.made :
                      HoldsDefaultSection(config, other)
                        => get(config', other, <<"api", "timeout">>,
                               GivenDefault) = StoredApiTimeout
               /\ get(config', config'.last.instance, <<"api", "timeout">>,
                      GivenDefault) = StoredApiTimeout
               /\ config'.shared["api"]["timeout"] = StoredApiTimeout
       /\ LaterInstanceStartsFromShared
       /\ ToDictAliasesInstance
      ]_vars

\* set('api.timeout', 45) on one instance has just returned, and another
\* instance, made before, returns 45 for api.timeout
C29_OtherInstanceSeesSetValue ==
    /\ config.last.op = "set"
    /\ config.last.key = <<"api", "timeout">>
    /\ config.last.value = Scalar("45")
    /\ config.last.raised = None
    /\ \E other \in config.made \ {config.last.instance} :
           /\ HoldsDefaultSection(config, other)
           /\ get(config, other, <<"api", "timeout">>, GivenDefault)
                = Scalar("45")
    /\ config.shared["api"]["timeout"] = Scalar("45")

====
